---------------------------- MODULE Spec2Model ----------------------------
(***************************************************************************)
(* A model of the fintablo-api client: the HTTP transport with its retry   *)
(* policy and error mapper (http_client.py), the repository layer and its  *)
(* model codec (base.py, models.py) and the client facade (client.py).     *)
(*                                                                         *)
(* One caller drives one client.  A call is started by the action named    *)
(* after the operation, the server answers each attempt in Resend or in    *)
(* Complete, and the attempt that ends the round trip also runs the rest   *)
(* of the operation's code and leaves what the caller observes in `result`.*)
(***************************************************************************)
EXTENDS Integers, Sequences, FiniteSets, TLC

VARIABLES
    pc,        \* "idle": no call in progress; "sending": inside session.request;
               \* "done": the call has ended and the caller holds its result
    op,        \* the operation the caller invoked last: [name, repo, arg]
    req,       \* the request handed to HttpClient._make_request by that operation
    attempts,  \* attempts the session has made so far for `req`
    sent,      \* how many of them put the request on the wire
    hist,      \* what each attempt that was followed by another one met: the
               \* status of its response, or 0 when there was none
    net,       \* what the attempt that ended the round trip met, and the verdict
    tr,        \* how the HttpClient method (get/post/put/delete) ended
    result,    \* how the operation ended for the caller
    qb,        \* the query builder of the caller's terminal call
    calls,     \* the chaining calls made on a builder the caller is putting
               \* together, in their order
    client,    \* the Fintablo object the caller holds, or None before it has one
    scope,     \* where the caller is with respect to a `with Fintablo(...)`
               \* block: "none" (it uses no block), "inside" or "left"
    wire       \* the requests handed to session.request, in their order

vars ==
    <<pc, op, req, attempts, sent, hist, net, tr, result, qb, calls, client,
      scope, wire>>

---------------------------------------------------------------------------
(* Python and JSON values, tagged by type.                                 *)

Null == [t |-> "null"]
Str(s) == [t |-> "str", v |-> s]
Num(n) == [t |-> "num", v |-> n]
Bool(b) == [t |-> "bool", v |-> b]
Arr(s) == [t |-> "arr", v |-> s]
Obj(f) == [t |-> "obj", v |-> f]

EmptyMap == [k \in {} |-> Null]
EmptyDict == Obj(EmptyMap)
EmptyList == Arr(<<>>)

IsDict(v) == v.t = "obj"
IsList(v) == v.t = "arr"
IsNone(v) == v.t = "null"

\* Python truthiness: None, False, 0, "", [] and {} are falsy.
Truthy(v) ==
    CASE v.t = "null" -> FALSE
      [] v.t = "bool" -> v.v
      [] v.t = "num" -> v.v # 0
      [] v.t = "str" -> v.v # ""
      [] v.t = "arr" -> Len(v.v) > 0
      [] v.t = "obj" -> DOMAIN v.v # {}
      [] OTHER -> TRUE

\* dict.get(key, default)
DictGet(d, key, default) == IF key \in DOMAIN d.v THEN d.v[key] ELSE default

\* The keys of a dict in the order iteration yields them.
KeyOrder(keys) ==
    CHOOSE q \in [1..Cardinality(keys) -> keys] :
        \A i, j \in 1..Cardinality(keys) : i # j => q[i] # q[j]

\* How a call ends: a value returned or an exception raised.
Return(v) == [kind |-> "return", value |-> v]
Raised(e) == [kind |-> "raise", exc |-> e]
NoResult == [kind |-> "none"]

---------------------------------------------------------------------------
(* Exceptions (exceptions.py).                                             *)

Absent == [t |-> "absent"]

FinTabloClasses ==
    {"FinTabloException", "AuthenticationException", "NotFoundException",
     "ValidationException", "RateLimitException", "ServerException",
     "TimeoutException", "ConnectionException", "ModelParsingException",
     "EmptyResponseException", "BadRequestException", "ForbiddenException"}

\* FinTabloException.__init__(message, response=None, status_code=None)
FinTabloException(cls, message, response, status_code) ==
    [cls |-> cls, message |-> message, response |-> response,
     status_code |-> status_code, errors |-> Absent, retry_after |-> Absent]

\* ValidationException.__init__: self.errors = errors or []
ValidationExceptionWithoutErrors(message, response, status_code, errors) ==
    [FinTabloException("ValidationException", message, response, status_code)
        EXCEPT !.errors = EmptyList]

ValidationException(message, response, status_code, errors) ==
    [FinTabloException("ValidationException", message, response, status_code)
        EXCEPT !.errors = IF Truthy(errors) THEN errors ELSE EmptyList]

\* RateLimitException.__init__: self.retry_after = retry_after
RateLimitException(message, response, status_code, retry_after) ==
    [FinTabloException("RateLimitException", message, response, status_code)
        EXCEPT !.retry_after = retry_after]

\* An exception that is no FinTabloException (AttributeError, TypeError, ...).
PyError(cls, text) ==
    [cls |-> cls, message |-> Str(text), response |-> Null,
     status_code |-> Null, errors |-> Absent, retry_after |-> Absent]

IsTyped(e) == e.cls \in FinTabloClasses

\* FinTabloException.__str__
ExcStr(e) ==
    IF e.status_code.t = "num" /\ e.status_code.v # 0
    THEN "[" \o ToString(e.status_code.v) \o "] " \o e.message.v
    ELSE e.message.v

---------------------------------------------------------------------------
(* The server's side of a round trip.                                      *)

\* A response body: the raw text, and the value response.json() yields when
\* the text is JSON.  response.content is falsy exactly when text = "".
JsonBody(text, value) == [isjson |-> TRUE, text |-> text, json |-> value]
TextBody(text) == [isjson |-> FALSE, text |-> text, json |-> Null]
NoBody == TextBody("")

Response(status, body, retryAfter) ==
    [status |-> status, body |-> body, retryAfter |-> retryAfter]

\* What one attempt meets: a response, or an error below the HTTP level.
GotResponse(r) == [kind |-> "response", response |-> r]
GotError(cls, phase, text) ==
    [kind |-> "error", cls |-> cls, phase |-> phase, text |-> text]

---------------------------------------------------------------------------
(* HttpClient.__init__: the retry policy mounted on the session.           *)

MaxRetries == 3
StatusForcelistWithout503 == {429, 500, 502, 504}
StatusForcelist == {429, 500, 502, 503, 504}
AllowedMethodsWithPost == {"HEAD", "GET", "OPTIONS", "POST"}
AllowedMethods == {"HEAD", "GET", "OPTIONS"}
\* urllib3's Retry.RETRY_AFTER_STATUS_CODES, honoured because
\* respect_retry_after_header keeps its default
RetryAfterStatusCodes == {413, 429, 503}

\* Retry.is_retry, with `left` the value of Retry.total
IsRetry(method, status, hasRetryAfter, left) ==
    /\ method \in AllowedMethods
    /\ \/ status \in StatusForcelist
       \/ (left > 0 /\ hasRetryAfter /\ status \in RetryAfterStatusCodes)

\* Retry.increment for an error: a connection error is retried for every
\* method, a read error only for the allowed methods.
IsRetryableError(method, phase) ==
    \/ phase = "connect"
    \/ (phase = "read" /\ method \in AllowedMethods)

\* What the session does with the outcome of an attempt made with `left`
\* retries remaining: send again, give up (MaxRetryError) or hand it on.
AttemptVerdictOneRetryLess(method, left, outcome) ==
    LET wants ==
            IF outcome.kind = "response"
            THEN IsRetry(method, outcome.response.status,
                         ~IsNone(outcome.response.retryAfter), left)
            ELSE IsRetryableError(method, outcome.phase)
    IN  IF ~wants THEN "done"
        ELSE IF left - 2 < 0 THEN "exhausted"
        ELSE "retry"

AttemptVerdict(method, left, outcome) ==
    LET wants ==
            IF outcome.kind = "response"
            THEN IsRetry(method, outcome.response.status,
                         ~IsNone(outcome.response.retryAfter), left)
            ELSE IsRetryableError(method, outcome.phase)
    IN  IF ~wants THEN "done"
        ELSE IF left - 1 < 0 THEN "exhausted"
        ELSE "retry"

\* The requests exception session.request raises for an attempt that ended
\* the round trip without a response to hand on.
RequestsException(outcome, verdict) ==
    IF outcome.kind = "response"
    THEN [cls |-> "RetryError",
          text |-> "too many " \o ToString(outcome.response.status)
                               \o " error responses"]
    ELSE IF verdict = "exhausted"
    THEN [cls |-> IF outcome.cls = "ConnectTimeoutError"
                  THEN "ConnectTimeout" ELSE "ConnectionError",
          text |-> outcome.text]
    ELSE [cls |-> CASE outcome.cls = "ReadTimeoutError" -> "ReadTimeout"
                    [] outcome.cls = "ProtocolError" -> "ConnectionError"
                    [] OTHER -> outcome.cls,
          text |-> outcome.text]

\* requests.exceptions: ConnectTimeout is both a ConnectionError and a Timeout
IsTimeout(cls) == cls \in {"ReadTimeout", "ConnectTimeout"}
IsConnectionError(cls) == cls \in {"ConnectTimeout", "ConnectionError", "SSLError"}

---------------------------------------------------------------------------
(* HttpClient._handle_response_errors                                      *)

\* The try/except that computes error_message.  `bound` tells whether
\* error_data was assigned; ok = FALSE is the AttributeError of calling .get
\* on a JSON value that is no dict, which the except clause does not catch.
ErrorMessageRawText(response) ==
    LET b == response.body IN
    IF ~b.isjson
    THEN [ok |-> TRUE, bound |-> FALSE,
          message |-> IF b.text # "" THEN Str(b.text)
                      ELSE Str("HTTP " \o ToString(response.status))]
    ELSE IF ~IsDict(b.json) THEN [ok |-> FALSE]
    ELSE [ok |-> TRUE, bound |-> TRUE,
          message |-> DictGet(b.json, "message", Str(b.text))]

ErrorMessage(response) ==
    LET b == response.body IN
    IF ~b.isjson
    THEN [ok |-> TRUE, bound |-> FALSE,
          message |-> IF b.text # "" THEN Str(b.text)
                      ELSE Str("HTTP " \o ToString(response.status))]
    ELSE IF ~IsDict(b.json) THEN [ok |-> FALSE]
    ELSE [ok |-> TRUE, bound |-> TRUE,
          message |-> DictGet(b.json, "message", Str("Unknown error"))]

\* The if/elif chain on response.status_code: the class raised.
StatusClassOffByOne(status) ==
    CASE status = 401 -> "AuthenticationException"
      [] status = 404 -> "NotFoundException"
      [] status = 422 -> "ValidationException"
      [] status = 429 -> "RateLimitException"
      [] 500 <= status /\ status <= 600 -> "ServerException"
      [] OTHER -> "FinTabloException"

StatusClass(status) ==
    CASE status = 401 -> "AuthenticationException"
      [] status = 404 -> "NotFoundException"
      [] status = 422 -> "ValidationException"
      [] status = 429 -> "RateLimitException"
      [] 500 <= status /\ status < 600 -> "ServerException"
      [] OTHER -> "FinTabloException"

HandleResponseErrors(response) ==
    IF response.status < 400 THEN NoResult
    ELSE
    LET m == ErrorMessage(response)
        cls == StatusClass(response.status)
        code == Num(response.status)
    IN  IF ~m.ok
        THEN Raised(PyError("AttributeError", "object has no attribute 'get'"))
        ELSE CASE cls = "ValidationException" ->
                    IF ~m.bound
                    THEN Raised(PyError("UnboundLocalError",
                                 "local variable 'error_data' referenced before assignment"))
                    ELSE Raised(ValidationException(m.message, response, code,
                                 DictGet(response.body.json, "errors", EmptyList)))
               [] cls = "RateLimitException" ->
                    Raised(RateLimitException(m.message, response, code,
                                              response.retryAfter))
               [] OTHER ->
                    Raised(FinTabloException(cls, m.message, response, code))

---------------------------------------------------------------------------
(* HttpClient._make_request and the verb methods                           *)

\* The keyword arguments of session.request: params and a JSON body are
\* attached only when truthy.
RequestKwargs(params, data) ==
    [params |-> IF Truthy(params) THEN params ELSE Absent,
     json |-> IF Truthy(data) /\ IsDict(data) THEN data ELSE Absent,
     data |-> IF Truthy(data) /\ ~IsDict(data) THEN data ELSE Absent]

\* The except clauses around session.request, in their order.
WrapRequestsException(e) ==
    IF IsTimeout(e.cls)
    THEN FinTabloException("TimeoutException",
                           Str("Request timed out: " \o e.text), Null, Null)
    ELSE IF IsConnectionError(e.cls)
    THEN FinTabloException("ConnectionException",
                           Str("Connection error: " \o e.text), Null, Null)
    ELSE FinTabloException("FinTabloException",
                           Str("Request failed: " \o e.text), Null, Null)

\* _make_request from the point where session.request ends, either with a
\* response handed on or with a requests exception.
MakeRequest(outcome, verdict) ==
    IF outcome.kind = "response" /\ verdict = "done"
    THEN LET h == HandleResponseErrors(outcome.response)
         IN IF h.kind = "raise" THEN h ELSE Return(outcome.response)
    ELSE Raised(WrapRequestsException(RequestsException(outcome, verdict)))

\* get/post/put/patch/delete: response.json() if response.content else {}
ParsedBody(response) ==
    IF response.body.text = "" THEN Return(EmptyDict)
    ELSE IF response.body.isjson THEN Return(response.body.json)
    ELSE Raised(PyError("JSONDecodeError", "Expecting value"))

HttpCall(outcome, verdict) ==
    LET r == MakeRequest(outcome, verdict)
    IN IF r.kind = "raise" THEN r ELSE ParsedBody(r.value)

---------------------------------------------------------------------------
(* models.py: the entity kinds and to_api_dict                             *)

Repos == {"category", "transaction"}

\* BaseRepository.__init__: endpoint.strip("/"), as each repository passes it
Endpoint(repo) == IF repo = "category" THEN "v1/category" ELSE "v1/transaction"
ModelClass(repo) == IF repo = "category" THEN "Category" ELSE "Transaction"

\* The dataclass fields
Fields(cls) ==
    CASE cls = "Category" ->
            {"id", "name", "parentId", "group", "type", "pnlType", "description",
             "isBuiltIn"}
      [] cls = "Deal" ->
            {"id", "name", "jobs", "goods", "directionId", "amount", "currency",
             "customCostPrice", "statusId", "partnerId", "responsibleId",
             "comment", "startDate", "endDate", "actDate", "nds", "stages"}
      [] OTHER ->
            {"id", "externalId", "value", "moneybagId", "group", "value2",
             "moneybag2Id", "parentId", "description", "date", "timestamp",
             "isPlan", "categoryId", "partnerId", "directionId", "dealId",
             "obligationId", "factMonth", "spreadMonthes", "nds", "obtainingId",
             "course"}

\* Every field defaults to None, but the fields declared with
\* default_factory=list to a new list.
FieldDefaultAlwaysNone(cls, f) == Null

FieldDefault(cls, f) ==
    IF \/ (cls = "Transaction" /\ f = "spreadMonthes")
       \/ (cls = "Deal" /\ f \in {"jobs", "goods", "stages"})
    THEN EmptyList ELSE Null

Entity(cls, given) ==
    [t |-> "entity", cls |-> cls,
     attrs |-> [f \in Fields(cls) |->
                  IF f \in DOMAIN given THEN given[f] ELSE FieldDefault(cls, f)]]

DateTime(y, mo, d, h, mi, sec) ==
    [t |-> "datetime", y |-> y, mo |-> mo, d |-> d, h |-> h, mi |-> mi,
     sec |-> sec]
Enum(cls, name, value) == [t |-> "enum", cls |-> cls, name |-> name, v |-> value]
GroupIncome == Enum("GroupEnum", "INCOME", "income")

Pad2(n) == IF n < 10 THEN "0" \o ToString(n) ELSE ToString(n)
Pad4(n) ==
    IF n < 10 THEN "000" \o ToString(n)
    ELSE IF n < 100 THEN "00" \o ToString(n)
    ELSE IF n < 1000 THEN "0" \o ToString(n)
    ELSE ToString(n)

\* datetime.strftime("%d.%m.%Y %H:%M"), for years of four digits (whether %Y
\* pads a year below 1000 depends on the platform's C library)
Strftime(dt) ==
    Pad2(dt.d) \o "." \o Pad2(dt.mo) \o "." \o Pad4(dt.y) \o " "
        \o Pad2(dt.h) \o ":" \o Pad2(dt.mi)

\* dataclasses.asdict on one value: a dataclass becomes the dict of all its
\* fields, lists and dicts are rebuilt from their converted members, and
\* every other value is copied.
RECURSIVE AsDict(_)
AsDict(value) ==
    CASE value.t = "entity" ->
            Obj([f \in DOMAIN value.attrs |-> AsDict(value.attrs[f])])
      [] value.t = "arr" -> Arr([i \in 1..Len(value.v) |-> AsDict(value.v[i])])
      [] value.t = "obj" -> Obj([k \in DOMAIN value.v |-> AsDict(value.v[k])])
      [] OTHER -> value

\* The conversion to_api_dict applies to one top-level value.
ApiValueIsoDate(value) ==
    IF value.t = "datetime"
    THEN Str(Pad4(value.y) \o "-" \o Pad2(value.mo) \o "-" \o Pad2(value.d))
    ELSE IF value.t = "enum" THEN Str(value.v)
    ELSE value

ApiValue(value) ==
    IF value.t = "datetime" THEN Str(Strftime(value))
    ELSE IF value.t = "enum" THEN Str(value.v)
    ELSE value

\* to_api_dict(obj): the fields that are not None, converted.
ToApiDict(entity) ==
    LET present == {f \in DOMAIN entity.attrs : ~IsNone(entity.attrs[f])}
    IN Obj([f \in present |-> ApiValue(AsDict(entity.attrs[f]))])

---------------------------------------------------------------------------
(* BaseRepository._create_model and _create_models_from_response           *)

\* datetime.strptime.  A format is a sequence of tokens: "Y", "m", "d", "H",
\* "M" for the directives, " " for a run of whitespace, any other character
\* for itself.  Each directive tries its alternatives in the order of the
\* regular expression strptime builds for it; the string must be used up,
\* and the calendar date must exist.
\* str[a-1:b], which is shorter when the string ends before b
Slice(str, a, b) ==
    IF a > Len(str) THEN ""
    ELSE SubSeq(str, a, IF b > Len(str) THEN Len(str) ELSE b)
Char(str, i) == Slice(str, i, i)
Contains(str, c) == \E i \in 1..Len(str) : Char(str, i) = c

DigitChars == <<"0", "1", "2", "3", "4", "5", "6", "7", "8", "9">>
IsDigit(c) == \E k \in 1..Len(DigitChars) : DigitChars[k] = c
DigitVal(c) == (CHOOSE k \in 1..Len(DigitChars) : DigitChars[k] = c) - 1

RECURSIVE NumVal(_)
NumVal(str) ==
    IF Len(str) = 0 THEN 0
    ELSE NumVal(Slice(str, 1, Len(str) - 1)) * 10 + DigitVal(Char(str, Len(str)))

AllDigits(str) == \A i \in 1..Len(str) : IsDigit(Char(str, i))

\* The number a run of exactly len digits spells, or -1
Number(str, len) == IF Len(str) = len /\ AllDigits(str) THEN NumVal(str) ELSE -1

\* The day a space followed by one digit spells, or -1
SpaceDigit(two) ==
    IF Len(two) = 2 /\ Char(two, 1) = " " THEN Number(Char(two, 2), 1) ELSE -1

\* One way a directive can match: <<length, value>>, if there is such a number
Candidate(len, n, ok) == IF n >= 0 /\ ok THEN <<(<<len, n>>)>> ELSE <<>>

\* The alternatives of each directive in the order of the regular expression
\* strptime builds for it; n4, n2, n1 are the numbers the next four, two and
\* one characters spell and sp the one of a space and a digit.
Alternatives(dir, n4, n2, n1, sp) ==
    CASE dir = "Y" -> Candidate(4, n4, TRUE)
      [] dir = "m" -> Candidate(2, n2, n2 \in 1..12) \o Candidate(1, n1, n1 \in 1..9)
      [] dir = "d" -> Candidate(2, n2, n2 \in 1..31) \o Candidate(1, n1, n1 \in 1..9)
                          \o Candidate(2, sp, sp \in 1..9)
      [] dir = "H" -> Candidate(2, n2, n2 \in 0..23) \o Candidate(1, n1, TRUE)
      [] dir = "M" -> Candidate(2, n2, n2 \in 0..59) \o Candidate(1, n1, TRUE)

\* The ways directive dir can match at position pos, best first
Candidates(dir, str, pos) ==
    Alternatives(dir, Number(Slice(str, pos, pos + 3), 4),
                 Number(Slice(str, pos, pos + 1), 2), Number(Char(str, pos), 1),
                 SpaceDigit(Slice(str, pos, pos + 1)))

Directives == {"Y", "m", "d", "H", "M"}
NoMatch == [ok |-> FALSE]

RECURSIVE SpacesFrom(_, _)
SpacesFrom(str, pos) ==
    IF pos <= Len(str) /\ Char(str, pos) = " " THEN 1 + SpacesFrom(str, pos + 1) ELSE 0

\* m if it is a match, else the alternative
OrElse(m, alternative) == IF m.ok THEN m ELSE alternative

\* A run of n > 0 spaces matched, the rest of the format goes on after it
AfterSpaces(n, rest) == IF n = 0 THEN NoMatch ELSE rest

RECURSIVE Match(_, _, _, _, _)
RECURSIVE TryCandidates(_, _, _, _, _, _)
\* The first candidate after which the rest of the format matches
TryCandidates(cands, str, pos, fmt, i, vals) ==
    IF Len(cands) = 0 THEN NoMatch
    ELSE OrElse(Match(str, pos + Head(cands)[1], fmt, i + 1,
                      (fmt[i] :> Head(cands)[2]) @@ vals),
                TryCandidates(Tail(cands), str, pos, fmt, i, vals))
Match(str, pos, fmt, i, vals) ==
    IF i > Len(fmt) THEN [ok |-> TRUE, end |-> pos - 1, vals |-> vals]
    ELSE IF fmt[i] \in Directives
    THEN TryCandidates(Candidates(fmt[i], str, pos), str, pos, fmt, i, vals)
    ELSE IF fmt[i] = " "
    THEN AfterSpaces(SpacesFrom(str, pos),
                     Match(str, pos + SpacesFrom(str, pos), fmt, i + 1, vals))
    ELSE IF pos <= Len(str) /\ Char(str, pos) = fmt[i]
    THEN Match(str, pos + 1, fmt, i + 1, vals)
    ELSE NoMatch

IsLeap(y) == (y % 4 = 0 /\ y % 100 # 0) \/ y % 400 = 0
DaysInMonth(y, mo) ==
    IF mo = 2 THEN (IF IsLeap(y) THEN 29 ELSE 28)
    ELSE IF mo \in {4, 6, 9, 11} THEN 30
    ELSE 31

\* The value of a directive, 0 for the hour and minute a format leaves out
Val(vals, dir) == IF dir \in DOMAIN vals THEN vals[dir] ELSE 0

\* The datetime of a match that used up the string and names a calendar date
Checked(m, len) ==
    IF ~m.ok THEN NoMatch
    ELSE IF m.end # len THEN NoMatch
    ELSE IF Val(m.vals, "Y") < 1
            \/ Val(m.vals, "d") > DaysInMonth(Val(m.vals, "Y"), Val(m.vals, "m"))
    THEN NoMatch
    ELSE [ok |-> TRUE,
          value |-> DateTime(Val(m.vals, "Y"), Val(m.vals, "m"), Val(m.vals, "d"),
                             Val(m.vals, "H"), Val(m.vals, "M"), 0)]

\* ok = FALSE stands for the ValueError
Strptime(str, fmt) == Checked(Match(str, 1, fmt, 1, EmptyMap), Len(str))

FormatIso == <<"Y", "-", "m", "-", "d">>
FormatDay == <<"d", ".", "m", ".", "Y">>
FormatMinute == <<"d", ".", "m", ".", "Y", " ", "H", ":", "M">>

\* The date branch of _create_model: whether a format is tried, and which
HasFormat(str) ==
    \/ (Len(str) = 10 /\ Contains(str, "-"))
    \/ (Contains(str, ".") /\ Len(str) >= 10)
FormatForAlwaysMinute(str) == FormatMinute

FormatFor(str) ==
    IF Len(str) = 10 /\ Contains(str, "-") THEN FormatIso
    ELSE IF Len(str) = 10 THEN FormatDay
    ELSE FormatMinute

\* The parsed date, or the raw string kept when no format is tried or the
\* parse fails
ParseDateKeepsRaw(value) == value

ParsedOr(parsed, value) == IF parsed.ok THEN parsed.value ELSE value
ParseDate(value) ==
    ParsedOr(IF HasFormat(value.v) THEN Strptime(value.v, FormatFor(value.v))
             ELSE NoMatch,
             value)

ConvertField(key, value) ==
    IF key = "date" /\ Truthy(value) /\ value.t = "str" THEN ParseDate(value)
    ELSE value

\* self.model_class(**converted_data)
Construct(cls, converted) ==
    IF DOMAIN converted \subseteq Fields(cls)
    THEN Return(Entity(cls, converted))
    ELSE Raised(PyError("TypeError",
                        "__init__() got an unexpected keyword argument"))

CreateModel(cls, data) ==
    IF ~IsDict(data)
    THEN Raised(PyError("AttributeError", "object has no attribute 'items'"))
    ELSE Construct(cls, [k \in DOMAIN data.v |-> ConvertField(k, data.v[k])])

\* `for item in items`: a list yields its elements, a dict its keys, a string
\* its characters (each a non-empty string, written "?" here since only its
\* being a truthy non-dict matters); anything else is not iterable.
Iterate(v) ==
    CASE IsList(v) -> [ok |-> TRUE, items |-> v.v]
      [] IsDict(v) ->
            LET order == KeyOrder(DOMAIN v.v)
            IN [ok |-> TRUE, items |-> [i \in 1..Len(order) |-> Str(order[i])]]
      [] v.t = "str" -> [ok |-> TRUE, items |-> [i \in 1..Len(v.v) |-> Str("?")]]
      [] OTHER -> [ok |-> FALSE, items |-> <<>>]

\* [self._create_model(item) for item in items if item]: the first item that
\* fails to parse ends the comprehension with its exception.
KeepAll(items) == items
DropFalsy(items) == SelectSeq(items, Truthy)

\* How the comprehension ends once each kept item has been parsed: with the
\* exception of the first item that failed, or with the list of entities
Comprehension(made) ==
    IF \E i \in 1..Len(made) : made[i].kind = "raise"
    THEN made[CHOOSE i \in 1..Len(made) :
                /\ made[i].kind = "raise"
                /\ \A j \in 1..(i - 1) : made[j].kind # "raise"]
    ELSE Return(Arr([i \in 1..Len(made) |-> made[i].value]))

ParseEach(cls, kept) == Comprehension([i \in 1..Len(kept) |-> CreateModel(cls, kept[i])])

Iterated(cls, it) ==
    IF ~it.ok THEN Raised(PyError("TypeError", "object is not iterable"))
    ELSE ParseEach(cls, DropFalsy(it.items))

CreateModels(cls, items) == Iterated(cls, Iterate(items))

\* The unwrapping of _create_models_from_response
ResponseItems(data) ==
    IF IsDict(data) /\ "items" \in DOMAIN data.v THEN data.v["items"]
    ELSE IF IsList(data) THEN data
    ELSE Arr(<<data>>)

CreateModelsFromResponse(cls, data) == CreateModels(cls, ResponseItems(data))

\* The unwrapping of _query_execute
QueryItems(data) ==
    IF IsDict(data)
    THEN DictGet(data, "items", DictGet(data, "results", Arr(<<data>>)))
    ELSE IF IsList(data) THEN data
    ELSE Arr(<<data>>)

\* value[key] for the subscripts create and update apply to the response
Subscript(v, key) ==
    CASE IsDict(v) ->
            IF key.t = "str" /\ key.v \in DOMAIN v.v THEN Return(v.v[key.v])
            ELSE Raised(PyError("KeyError", "key"))
      [] IsList(v) ->
            IF key.t # "num"
            THEN Raised(PyError("TypeError", "list indices must be integers"))
            ELSE IF key.v + 1 \in 1..Len(v.v) THEN Return(v.v[key.v + 1])
            ELSE Raised(PyError("IndexError", "list index out of range"))
      [] v.t = "str" ->
            IF key.t # "num"
            THEN Raised(PyError("TypeError", "string indices must be integers"))
            ELSE IF key.v + 1 \in 1..Len(v.v) THEN Return(Str("?"))
            ELSE Raised(PyError("IndexError", "string index out of range"))
      [] OTHER -> Raised(PyError("TypeError", "object is not subscriptable"))

\* response_data["items"][0]
FirstItemTakesLast(data) ==
    LET items == Subscript(data, Str("items"))
    IN IF items.kind = "raise" THEN items
       ELSE IF IsList(items.value) /\ Len(items.value.v) > 0
       THEN Return(items.value.v[Len(items.value.v)])
       ELSE Subscript(items.value, Num(0))

FirstItem(data) ==
    LET items == Subscript(data, Str("items"))
    IN IF items.kind = "raise" THEN items ELSE Subscript(items.value, Num(0))

---------------------------------------------------------------------------
(* QueryBuilder                                                            *)

\* QueryBuilder.__init__
NewQuery ==
    [filters |-> EmptyMap, ordering |-> <<>>, limit |-> Null, offset |-> Null,
     expand |-> <<>>]

\* ",".join(parts)
RECURSIVE Join(_)
Join(parts) ==
    IF Len(parts) = 0 THEN ""
    ELSE IF Len(parts) = 1 THEN parts[1]
    ELSE parts[1] \o "," \o Join(Tail(parts))

\* dict.update: the right operand wins
Update(d, e) == e @@ d

QFilter(q, kwargs) == [q EXCEPT !.filters = Update(@, kwargs)]
QOrderBy(q, field, ascending) ==
    [q EXCEPT !.ordering =
        Append(@, field \o ":" \o (IF ascending THEN "asc" ELSE "desc"))]
QLimit(q, n) == [q EXCEPT !.limit = Num(n)]
QOffset(q, n) == [q EXCEPT !.offset = Num(n)]
QExpand(q, fields) == [q EXCEPT !.expand = @ \o fields]

\* The builder q after first() when first() puts the old limit back
TerminalRestoring(q, name) == q

\* The builder q after its terminal call `name`: build_params, execute and
\* count read it; first() calls self.limit(1) on it before it executes
Terminal(q, name) == IF name = "first" THEN QLimit(q, 1) ELSE q

BuildParamsIfTruthy(q) ==
    LET p1 == q.filters
        p2 == IF Len(q.ordering) > 0
              THEN Update(p1, "order" :> Str(Join(q.ordering))) ELSE p1
        p3 == IF Truthy(q.limit) THEN Update(p2, "limit" :> q.limit) ELSE p2
        p4 == IF Truthy(q.offset) THEN Update(p3, "offset" :> q.offset) ELSE p3
        p5 == IF Len(q.expand) > 0
              THEN Update(p4, "expand" :> Str(Join(q.expand))) ELSE p4
    IN Obj(p5)

BuildParams(q) ==
    LET p1 == q.filters
        p2 == IF Len(q.ordering) > 0
              THEN Update(p1, "order" :> Str(Join(q.ordering))) ELSE p1
        p3 == IF ~IsNone(q.limit) THEN Update(p2, "limit" :> q.limit) ELSE p2
        p4 == IF ~IsNone(q.offset) THEN Update(p3, "offset" :> q.offset) ELSE p3
        p5 == IF Len(q.expand) > 0
              THEN Update(p4, "expand" :> Str(Join(q.expand))) ELSE p4
    IN Obj(p5)

---------------------------------------------------------------------------
(* The operations, from the point where the HttpClient call has ended with *)
(* t (a parsed body returned, or an exception raised).                     *)

\* BaseRepository.find_all, and the filters built on the same helper
FindAllSwallowing(cls, t) ==
    IF t.kind = "raise" THEN Return(EmptyList)
    ELSE CreateModelsFromResponse(cls, t.value)

FindAll(cls, t) ==
    IF t.kind = "raise" THEN t ELSE CreateModelsFromResponse(cls, t.value)

\* BaseRepository.find_by_id
FindByIdUncaught(cls, t) ==
    IF t.kind = "raise" THEN t ELSE CreateModel(cls, t.value)

FindById(cls, t) ==
    LET r == IF t.kind = "raise" THEN t ELSE CreateModel(cls, t.value)
    IN IF r.kind = "raise" THEN Return(Null) ELSE r

\* BaseRepository.create and update: the response unwrapping
CreateOrUpdate(cls, t) ==
    IF t.kind = "raise" THEN t
    ELSE LET item == FirstItem(t.value)
         IN IF item.kind = "raise" THEN item ELSE CreateModel(cls, item.value)

\* BaseRepository.delete
DeleteUncaught(t) ==
    IF t.kind = "raise" THEN t ELSE Return(Bool(TRUE))

Delete(t) ==
    IF t.kind = "raise" THEN Return(Bool(FALSE)) ELSE Return(Bool(TRUE))

\* BaseRepository._query_execute
QueryExecute(cls, t) ==
    IF t.kind = "raise" THEN t ELSE CreateModels(cls, QueryItems(t.value))

\* QueryBuilder.first: results[0] if results else None
QueryFirstTakesLast(cls, t) ==
    LET r == QueryExecute(cls, t)
    IN IF r.kind = "raise" THEN r
       ELSE IF Len(r.value.v) > 0 THEN Return(r.value.v[Len(r.value.v)])
       ELSE Return(Null)

QueryFirst(cls, t) ==
    LET r == QueryExecute(cls, t)
    IN IF r.kind = "raise" THEN r
       ELSE IF Len(r.value.v) > 0 THEN Return(r.value.v[1]) ELSE Return(Null)

\* BaseRepository._query_count
QueryCount(t) ==
    IF t.kind = "raise" THEN t
    ELSE IF IsDict(t.value) THEN Return(DictGet(t.value, "count", Num(0)))
    ELSE Return(Num(0))

\* The action endpoints return the decoded response as it is
Action(t) == t

\* Fintablo.test_connection
TestConnectionRaising(t) ==
    IF t.kind = "raise" THEN t
    ELSE Return(Obj(("success" :> Bool(TRUE))
                 @@ ("message" :> Str("Connection successful"))
                 @@ ("data" :> t.value)))

TestConnection(t) ==
    IF t.kind = "raise"
    THEN Return(Obj(("success" :> Bool(FALSE))
                 @@ ("message" :> Str("Connection failed: " \o ExcStr(t.exc)))
                 @@ ("error" :> [t |-> "exc", v |-> t.exc])))
    ELSE Return(Obj(("success" :> Bool(TRUE))
                 @@ ("message" :> Str("Connection successful"))
                 @@ ("data" :> t.value)))

\* What the caller gets from operation o once its HttpClient call ended with t
Finish(o, t) ==
    LET cls == ModelClass(o.repo) IN
    CASE o.name = "find_all" -> FindAll(cls, t)
      [] o.name = "get_by_group" -> FindAll(cls, t)
      [] o.name = "find_by_id" -> FindById(cls, t)
      [] o.name = "create" -> CreateOrUpdate(cls, t)
      [] o.name = "update" -> CreateOrUpdate(cls, t)
      [] o.name = "delete" -> Delete(t)
      [] o.name = "execute" -> QueryExecute(cls, t)
      [] o.name = "first" -> QueryFirst(cls, t)
      [] o.name = "count" -> QueryCount(t)
      [] o.name = "split_transaction" -> Action(t)
      [] o.name = "test_connection" -> TestConnection(t)

---------------------------------------------------------------------------
(* Fintablo and HttpClient: construction, the request URL, close and the   *)
(* with-block.                                                             *)

DEFAULT_BASE_URL == "https://api.fintablo.ru/v1"

\* str.rstrip("/") and str.lstrip("/")
RECURSIVE RStrip(_)
RStrip(str) ==
    IF Len(str) > 0 /\ Char(str, Len(str)) = "/"
    THEN RStrip(Slice(str, 1, Len(str) - 1)) ELSE str

RECURSIVE LStrip(_)
LStrip(str) ==
    IF Len(str) > 0 /\ Char(str, 1) = "/"
    THEN LStrip(Slice(str, 2, Len(str))) ELSE str

\* Where the path of "scheme://host[/path]" begins: at the first "/" after
\* the host, or past the end when there is no path
PathStart(base) ==
    LET host == (CHOOSE i \in 1..Len(base) : Slice(base, i, i + 2) = "://") + 3
        slashes == {j \in host..Len(base) : Char(base, j) = "/"}
    IN  IF slashes = {} THEN Len(base) + 1
        ELSE CHOOSE j \in slashes : \A k \in slashes : j <= k

LastSlash(base) ==
    CHOOSE j \in 1..Len(base) :
        /\ Char(base, j) = "/"
        /\ \A k \in (j + 1)..Len(base) : Char(base, k) # "/"

\* urllib.parse.urljoin(base, url) for a base "scheme://host[/path]" and a
\* relative path url (no scheme, no leading "/", no empty or dot segment):
\* an empty url gives the base; otherwise the url replaces what follows the
\* last "/" of the base's path, and a base without a path gets "/" and the
\* url.
UrlJoin(base, url) ==
    IF url = "" THEN base
    ELSE IF PathStart(base) > Len(base) THEN base \o "/" \o url
    ELSE Slice(base, 1, LastSlash(base)) \o url

\* HttpClient.__init__: the session's headers after headers.update(...); no
\* caller of this package passes a user agent.  `pooled` tells whether the
\* session's adapters hold connection pools: a new session holds none.
HeadersWithBareKey(api_key) ==
    ("Content-Type" :> "application/json") @@ ("Accept" :> "application/json")
    @@ ("Authorization" :> api_key)
    @@ ("User-Agent" :> "fintablo-api-python/0.1.0")

Headers(api_key) ==
    ("Content-Type" :> "application/json") @@ ("Accept" :> "application/json")
    @@ ("Authorization" :> "Bearer " \o api_key)
    @@ ("User-Agent" :> "fintablo-api-python/0.1.0")

HttpClient(base_url, api_key) ==
    [base_url |-> RStrip(base_url), api_key |-> api_key,
     headers |-> Headers(api_key), pooled |-> FALSE]

NoClient == Null

\* Fintablo.__init__(api_key, base_url=None)
FintabloUnchecked(api_key, base_url) ==
    Return([api_key |-> api_key,
            base_url |-> IF Truthy(base_url) THEN base_url.v ELSE DEFAULT_BASE_URL,
            http_client |->
                HttpClient(IF Truthy(base_url) THEN base_url.v ELSE DEFAULT_BASE_URL,
                           IF IsNone(api_key) THEN "None" ELSE api_key.v)])

Fintablo(api_key, base_url) ==
    IF ~Truthy(api_key)
    THEN Raised(FinTabloException("AuthenticationException",
                                  Str("API key is required"), Null, Null))
    ELSE Return([api_key |-> api_key,
                 base_url |-> IF Truthy(base_url) THEN base_url.v ELSE DEFAULT_BASE_URL,
                 http_client |->
                    HttpClient(IF Truthy(base_url) THEN base_url.v ELSE DEFAULT_BASE_URL,
                               api_key.v)])

\* session.request obtains a pool for the host from the session's adapter
Pooling(c) == [c EXCEPT !.http_client.pooled = TRUE]

\* HttpClient.close: session.close() closes the adapters, which clear their
\* pools; closing a session that holds none changes nothing.
SessionClose(http) == [http EXCEPT !.pooled = FALSE]

\* Fintablo.close
Close(c) == [c EXCEPT !.http_client = SessionClose(@)]

\* Fintablo.__enter__ and __exit__
Enter(c) == c
ExitWithoutClose(c) == c
Exit(c) == Close(c)

---------------------------------------------------------------------------
(* The environment: what the caller passes and what the server answers.    *)

MaxId == 2
Ids == 1..MaxId

\* The text the server writes for a JSON value.
RECURSIVE JsonText(_)
RECURSIVE JsonTextSeq(_)
JsonTextSeq(texts) ==
    IF Len(texts) = 0 THEN ""
    ELSE IF Len(texts) = 1 THEN texts[1]
    ELSE texts[1] \o "," \o JsonTextSeq(Tail(texts))
JsonText(v) ==
    CASE v.t = "null" -> "null"
      [] v.t = "bool" -> IF v.v THEN "true" ELSE "false"
      [] v.t = "num" -> ToString(v.v)
      [] v.t = "str" -> "\"" \o v.v \o "\""
      [] v.t = "arr" ->
            "[" \o JsonTextSeq([i \in 1..Len(v.v) |-> JsonText(v.v[i])]) \o "]"
      [] v.t = "obj" ->
            LET order == KeyOrder(DOMAIN v.v)
            IN "{" \o JsonTextSeq([i \in 1..Len(order) |->
                        "\"" \o order[i] \o "\":" \o JsonText(v.v[order[i]])])
                   \o "}"

Json(v) == JsonBody(JsonText(v), v)

ItemSales ==
    Obj(("id" :> Num(1)) @@ ("name" :> Str("Sales")) @@ ("group" :> Str("income")))
Item1 == Obj("id" :> Num(1))
Item2 == Obj("id" :> Num(2))
ItemUnknownKey == Obj(("id" :> Num(1)) @@ ("status" :> Str("active")))
ItemDated == Obj(("id" :> Num(2)) @@ ("date" :> Str("2024-01-15")))

\* Lists of items a list endpoint may carry
ItemLists ==
    {<<>>, <<ItemSales>>, <<Item1, Item2>>, <<Item1, Null, Item2>>,
     <<EmptyDict, Item2, Num(0)>>, <<Item1, ItemUnknownKey>>, <<Null, Num(7)>>}

ListValues ==
    UNION {{Arr(l), Obj("items" :> Arr(l)), Obj("results" :> Arr(l))} : l \in ItemLists}

\* Other bodies of a success: one object, a count, nothing usable
OtherValues ==
    {ItemSales, ItemUnknownKey, ItemDated, EmptyDict, Obj("count" :> Num(2)),
     Obj("items" :> Num(5)), Null, Str("ok")}

\* Bodies of an error answer: objects with and without `message`, and JSON
\* that is no object
ErrorValues ==
    {Obj(("message" :> Str("bad value")) @@ ("errors" :> Arr(<<Str("field X invalid")>>))),
     Obj("message" :> Str("not here")),
     Obj("detail" :> Str("denied")),
     Arr(<<Str("down")>>),
     Str("oops"),
     Null}

Statuses ==
    {200, 204, 399, 400, 401, 403, 404, 413, 422, 429, 499, 500, 501, 503,
     599, 600}

\* The API answers a success with JSON or with no body; an error answer may
\* carry anything (a proxy's plain text included).
Bodies(status) ==
    IF status < 400
    THEN {Json(v) : v \in ListValues \cup OtherValues} \cup {NoBody}
    ELSE {Json(v) : v \in ErrorValues} \cup {NoBody, TextBody("Bad Gateway")}

\* A Retry-After header comes, if at all, with the statuses that define it.
RetryAfters(status) ==
    IF status \in RetryAfterStatusCodes THEN {Null, Str("5")} ELSE {Null}

Responses ==
    UNION {{Response(st, b, ra) : b \in Bodies(st), ra \in RetryAfters(st)} :
            st \in Statuses}

NetErrors ==
    {GotError("ConnectTimeoutError", "connect", "connect timed out"),
     GotError("NewConnectionError", "connect", "connection refused"),
     GotError("ReadTimeoutError", "read", "read timed out"),
     GotError("ProtocolError", "read", "connection aborted"),
     GotError("TooManyRedirects", "none", "exceeded 30 redirects")}

Outcomes == {GotResponse(r) : r \in Responses} \cup NetErrors

\* Entities the caller creates or updates
NewEntities ==
    {Entity("Category", ("name" :> Str("Sales")) @@ ("group" :> GroupIncome)),
     Entity("Category", EmptyMap),
     Entity("Transaction", ("value" :> Num(100)) @@ ("group" :> Str("income"))
                            @@ ("date" :> DateTime(2024, 1, 15, 9, 30, 0)))}

RepoOf(entity) == IF entity.cls = "Category" THEN "category" ELSE "transaction"

Groups == {"income", "outcome"}

\* Builders the caller may have put together when it makes a terminal call
Queries ==
    {NewQuery,
     QLimit(QOrderBy(QFilter(NewQuery, "group" :> Str("income")), "date", FALSE), 10)}

---------------------------------------------------------------------------
(* The state machine                                                       *)

NoNet == [verdict |-> "none"]

\* A connection that could not be made carried no request; every other
\* attempt did.
OnTheWire(outcome) == IF outcome.kind = "error" /\ outcome.phase = "connect" THEN 0 ELSE 1

\* What an attempt met, as the transport boundary sees it
Met(outcome) == IF outcome.kind = "response" THEN outcome.response.status ELSE 0
NoOp == [name |-> "none", repo |-> "category", id |-> Null, data |-> Null]
NoRequest == [method |-> "none"]

\* The arguments of _make_request and what it hands to session.request
Request(method, endpoint, params, data) ==
    [method |-> method, endpoint |-> endpoint, params |-> params, data |-> data,
     kwargs |-> RequestKwargs(params, data),
     url |-> UrlJoin(client.http_client.base_url, LStrip(endpoint)),
     headers |-> client.http_client.headers]

\* The caller holds the client c and has made no call yet
InitWith(c) ==
    /\ pc = "idle"
    /\ op = NoOp
    /\ req = NoRequest
    /\ attempts = 0
    /\ sent = 0
    /\ hist = <<>>
    /\ net = NoNet
    /\ tr = NoResult
    /\ result = NoResult
    /\ qb = NewQuery
    /\ calls = <<>>
    /\ client = c
    /\ scope = "none"
    /\ wire = <<>>

\* The caller has constructed its client, outside any with-block
Init == InitWith(Fintablo(Str("k"), Str("https://api.example.test")).value)

\* How many requests a caller hands to the transport before the log of them
\* is started anew
MaxRequests == 2

\* _make_request hands every request it is called with to session.request
IssueUnlessSeen(log, r) ==
    IF \E i \in 1..Len(log) : log[i] = [method |-> r.method, url |-> r.url]
    THEN log
    ELSE Append(log, [method |-> r.method, url |-> r.url])

Issue(log, r) == Append(log, [method |-> r.method, url |-> r.url])

\* An operation starts: its code runs up to the HttpClient call.  The
\* caller has a client and has not left the with-block it holds it in.
Start(o, r) ==
    /\ pc = "idle"
    /\ client # NoClient
    /\ scope # "left"
    /\ Len(wire) < MaxRequests
    /\ pc' = "sending"
    /\ op' = o
    /\ req' = r
    /\ attempts' = 0
    /\ sent' = 0
    /\ hist' = <<>>
    /\ net' = NoNet
    /\ tr' = NoResult
    /\ result' = NoResult
    /\ wire' = Issue(wire, r)
    /\ client' = Pooling(client)
    /\ UNCHANGED scope

Path(repo) == "/" \o Endpoint(repo)
PathId(repo, id) == "/" \o Endpoint(repo) \o "/" \o ToString(id)

CallFindAll ==
    \E repo \in Repos :
        /\ Start([name |-> "find_all", repo |-> repo, id |-> Null, data |-> Null],
                 Request("GET", Path(repo), Null, Null))
        /\ UNCHANGED <<qb, calls>>

CallGetByGroup ==
    \E repo \in Repos, g \in Groups :
        /\ Start([name |-> "get_by_group", repo |-> repo, id |-> Null, data |-> Str(g)],
                 Request("GET", Path(repo), Obj("group" :> Str(g)), Null))
        /\ UNCHANGED <<qb, calls>>

CallFindById ==
    \E repo \in Repos, id \in Ids :
        /\ Start([name |-> "find_by_id", repo |-> repo, id |-> Num(id), data |-> Null],
                 Request("GET", PathId(repo, id), Null, Null))
        /\ UNCHANGED <<qb, calls>>

CallCreate ==
    \E e \in NewEntities :
        /\ Start([name |-> "create", repo |-> RepoOf(e), id |-> Null, data |-> e],
                 Request("POST", Path(RepoOf(e)), Null, ToApiDict(e)))
        /\ UNCHANGED <<qb, calls>>

CallUpdate ==
    \E e \in NewEntities, id \in Ids :
        /\ Start([name |-> "update", repo |-> RepoOf(e), id |-> Num(id), data |-> e],
                 Request("PUT", PathId(RepoOf(e), id), Null, ToApiDict(e)))
        /\ UNCHANGED <<qb, calls>>

CallDelete ==
    \E repo \in Repos, id \in Ids :
        /\ Start([name |-> "delete", repo |-> repo, id |-> Num(id), data |-> Null],
                 Request("DELETE", PathId(repo, id), Null, Null))
        /\ UNCHANGED <<qb, calls>>

\* The terminal calls of a builder q obtained from repo.query()
CallExecute ==
    \E repo \in Repos, q \in Queries :
        /\ qb' = q
        /\ Start([name |-> "execute", repo |-> repo, id |-> Null, data |-> Null],
                 Request("GET", Path(repo), BuildParams(q), Null))
        /\ UNCHANGED calls

\* first() sets the builder's limit to 1 before it executes
CallFirst ==
    \E repo \in Repos, q \in Queries :
        /\ qb' = QLimit(q, 1)
        /\ Start([name |-> "first", repo |-> repo, id |-> Null, data |-> Null],
                 Request("GET", Path(repo), BuildParams(qb'), Null))
        /\ UNCHANGED calls

CallCount ==
    \E repo \in Repos, q \in Queries :
        /\ qb' = q
        /\ Start([name |-> "count", repo |-> repo, id |-> Null, data |-> Null],
                 Request("GET", Path(repo) \o "/count",
                         Obj(Update(BuildParams(q).v, "count" :> Bool(TRUE))), Null))
        /\ UNCHANGED calls

\* TransactionRepository.split_transaction
CallSplitTransaction ==
    \E id \in Ids, d \in {EmptyDict, Obj("parts" :> Num(2))} :
        /\ Start([name |-> "split_transaction", repo |-> "transaction",
                  id |-> Num(id), data |-> d],
                 Request("POST", PathId("transaction", id) \o "/split", Null, d))
        /\ UNCHANGED <<qb, calls>>

CallTestConnection ==
    /\ Start([name |-> "test_connection", repo |-> "category", id |-> Null,
              data |-> Null],
             Request("GET", "/v1/category", Null, Null))
    /\ UNCHANGED <<qb, calls>>

\* An attempt after which the session sends the request again
Resend ==
    /\ pc = "sending"
    /\ \E o \in Outcomes :
        /\ AttemptVerdict(req.method, MaxRetries - attempts, o) = "retry"
        /\ sent' = sent + OnTheWire(o)
        /\ hist' = Append(hist, Met(o))
    /\ attempts' = attempts + 1
    /\ UNCHANGED <<pc, op, req, net, tr, result, qb, calls, client, scope, wire>>

\* The attempt that ends the round trip, and the rest of the operation
Completing(outcomes) ==
    /\ pc = "sending"
    /\ \E o \in outcomes :
        LET verdict == AttemptVerdict(req.method, MaxRetries - attempts, o) IN
        /\ verdict # "retry"
        /\ net' = [outcome |-> o, verdict |-> verdict]
        /\ sent' = sent + OnTheWire(o)
        /\ tr' = HttpCall(o, verdict)
        /\ result' = Finish(op, tr')
    /\ attempts' = attempts + 1
    /\ pc' = "done"
    /\ UNCHANGED <<op, req, hist, qb, calls, client, scope, wire>>

Complete == Completing(Outcomes)

\* The caller is done with the result and with the builder, if it used one,
\* and is free to make its next call.
Forget ==
    /\ pc = "done"
    /\ pc' = "idle"
    /\ op' = NoOp
    /\ req' = NoRequest
    /\ attempts' = 0
    /\ sent' = 0
    /\ hist' = <<>>
    /\ net' = NoNet
    /\ tr' = NoResult
    /\ result' = NoResult
    /\ qb' = NewQuery
    /\ wire' = <<>>
    /\ UNCHANGED <<calls, client, scope>>

Next ==
    \/ CallFindAll
    \/ CallGetByGroup
    \/ CallFindById
    \/ CallCreate
    \/ CallUpdate
    \/ CallDelete
    \/ CallExecute
    \/ CallFirst
    \/ CallCount
    \/ CallSplitTransaction
    \/ CallTestConnection
    \/ Resend
    \/ Complete
    \/ Forget

Spec == Init /\ [][Next]_vars

---------------------------------------------------------------------------
(* The caller putting a builder together: repo.query() and the chaining    *)
(* calls, each of which changes the builder and returns it.                *)

MaxCalls == 3

\* One chaining call: the builder changes, nothing is sent
Chain(q, call) ==
    /\ pc = "idle"
    /\ Len(calls) < MaxCalls
    /\ qb' = q
    /\ calls' = Append(calls, call)
    /\ UNCHANGED <<pc, op, req, attempts, sent, hist, net, tr, result, client,
                   scope, wire>>

\* BaseRepository.query: a new builder
NewBuilder ==
    /\ pc = "idle"
    /\ calls # <<>>
    /\ qb' = NewQuery
    /\ calls' = <<>>
    /\ UNCHANGED <<pc, op, req, attempts, sent, hist, net, tr, result, client,
                   scope, wire>>

ChainFilter ==
    \E kwargs \in {"group" :> Str("income"), "group" :> Str("outcome"),
                  ("group" :> Str("transfer")) @@ ("isPlan" :> Bool(FALSE))} :
        Chain(QFilter(qb, kwargs), [name |-> "filter", kwargs |-> kwargs])

ChainOrderBy ==
    \E field \in {"date", "id"}, ascending \in BOOLEAN :
        Chain(QOrderBy(qb, field, ascending),
              [name |-> "order_by", field |-> field, ascending |-> ascending])

ChainLimit ==
    \E n \in {0, 10} : Chain(QLimit(qb, n), [name |-> "limit", n |-> n])

ChainOffset ==
    \E n \in {5} : Chain(QOffset(qb, n), [name |-> "offset", n |-> n])

ChainExpand ==
    \E fields \in {<<>>, <<"partner">>, <<"category", "partner">>} :
        Chain(QExpand(qb, fields), [name |-> "expand", fields |-> fields])

---------------------------------------------------------------------------
(* The codec on its own: the caller serializes an entity with to_api_dict  *)
(* and the repository parses a wire mapping with _create_model; each can   *)
(* be applied to what the other produced.                                  *)

Minute == DateTime(2024, 1, 15, 9, 30, 0)
Second == DateTime(2024, 1, 15, 9, 30, 45)
YearEnd == DateTime(1999, 12, 31, 23, 59, 59)

\* Entities the caller serializes
CodecEntities ==
    {Entity("Transaction", r) :
        r \in [id : {Null, Num(1)}, value : {Null, Num(100)},
               group : {Null, Str("income"), GroupIncome},
               date : {Null, Minute, Second, YearEnd},
               description : {Null, Str(""), Str("rent")},
               isPlan : {Null, Bool(FALSE)},
               spreadMonthes : {EmptyList, Null, Arr(<<Str("2024-01")>>)}]}
    \cup {Entity("Category", r) :
        r \in [name : {Null, Str("Sales")}, group : {Null, GroupIncome, Str("outcome")},
               isBuiltIn : {Null, Bool(TRUE)}]}
    \cup {Entity("Deal", r) :
        r \in [name : {Null, Str("Site")},
               jobs : {EmptyList, Null, Arr(<<Obj("name" :> Str("design"))>>),
                       Arr(<<Obj(("name" :> Str("design")) @@ ("date" :> Minute)
                                 @@ ("group" :> GroupIncome) @@ ("note" :> Null))>>),
                       Arr(<<Entity("Category", "group" :> GroupIncome)>>)},
               stages : {EmptyList, Arr(<<Obj("due" :> Second)>>)},
               startDate : {Null, Str("2024-01-15")}]}

Years == {1999, 2000, 2023, 2024}
Days == {1, 9, 28, 29, 30, 31}

\* The wire form YYYY-MM-DD, also of days the calendar does not have
IsoText(y, mo, d) == Pad4(y) \o "-" \o Pad2(mo) \o "-" \o Pad2(d)

\* Wire mappings the repository parses
WireItems ==
    {Obj("date" :> Str(IsoText(y, mo, d))) : y \in Years, mo \in 1..12, d \in Days}
    \cup {Obj(("id" :> Num(7)) @@ ("date" :> Str(text))) :
            text \in {"15.01.2024", "15.01.2024 09:30", "2024-01-15T09:30:00", "soon", "",
                      "15.01-2024", "32.01.2024", "15.01.2024 25:30", "1.1.2024 9:30",
                      "15.01.2024 09:30:00", "1.1.2024", "version 1.0", "15/01/2024"}}
    \cup {Obj("id" :> Num(7)), Obj("date" :> Null), Obj("date" :> Num(20240115)),
          ItemUnknownKey}

\* A call that involves no request: the caller gets its result at once
Direct(o, r) ==
    /\ pc = "idle"
    /\ pc' = "done"
    /\ op' = o
    /\ tr' = r
    /\ result' = r
    /\ UNCHANGED <<req, attempts, sent, hist, net, qb, calls, client, scope, wire>>

\* A second call on what the first one returned
Onward(name, r) ==
    /\ pc = "done"
    /\ tr.kind = "return"
    /\ op' = [op EXCEPT !.name = name]
    /\ result' = r
    /\ UNCHANGED <<pc, req, attempts, sent, hist, net, tr, qb, calls, client,
                   scope, wire>>

CallToApiDict ==
    \E e \in CodecEntities :
        Direct([NoOp EXCEPT !.name = "to_api_dict", !.data = e], Return(ToApiDict(e)))

ParseBack ==
    /\ op.name = "to_api_dict"
    /\ Onward("parse_back", CreateModel(op.data.cls, tr.value))

CallCreateModel ==
    \E item \in WireItems :
        Direct([NoOp EXCEPT !.name = "_create_model", !.data = item],
               CreateModel("Transaction", item))

SerializeBack ==
    /\ op.name = "_create_model"
    /\ Onward("serialize_back", Return(ToApiDict(tr.value)))

NextCodec ==
    \/ CallToApiDict
    \/ ParseBack
    \/ CallCreateModel
    \/ SerializeBack
    \/ Forget

CodecSpec == Init /\ [][NextCodec]_vars

---------------------------------------------------------------------------
(* The life of a client: the caller constructs it, as the subject of a     *)
(* with-block or not, makes repository calls one after the other, closes   *)
(* it, and leaves the block with or without an exception.                  *)

\* Answers the session hands on at the first attempt, whatever the method
Settled ==
    {GotResponse(Response(200, Json(Obj("items" :> Arr(<<ItemSales>>))), Null)),
     GotResponse(Response(404, Json(Obj("message" :> Str("not here"))), Null)),
     GotError("TooManyRedirects", "none", "exceeded 30 redirects")}

\* A step of the caller that involves no request and ends with r, after
\* which it holds the client c and is at s with respect to its with-block
Lifecycle(o, r, c, s) ==
    /\ pc = "idle"
    /\ pc' = "done"
    /\ op' = o
    /\ tr' = r
    /\ result' = r
    /\ client' = c
    /\ scope' = s
    /\ UNCHANGED <<req, attempts, sent, hist, net, qb, calls, wire>>

\* client = Fintablo(api_key, base_url), or
\* `with Fintablo(api_key, base_url) as client:`, which enters the block
\* only if the constructor returned
New ==
    \E api_key \in {Null, Str(""), Str("k")},
       base_url \in {Null, Str("https://api.example.test/"), Str("https://host/api")},
       with \in BOOLEAN :
        /\ client = NoClient
        /\ Lifecycle([NoOp EXCEPT !.name = "Fintablo",
                                  !.data = Obj(("api_key" :> api_key)
                                               @@ ("base_url" :> base_url))],
                     Fintablo(api_key, base_url),
                     IF Fintablo(api_key, base_url).kind = "raise" THEN NoClient
                     ELSE IF with THEN Enter(Fintablo(api_key, base_url).value)
                     ELSE Fintablo(api_key, base_url).value,
                     IF with /\ Fintablo(api_key, base_url).kind = "return"
                     THEN "inside" ELSE "none")

\* The server answers the request of the call in progress
Answer == Completing(Settled)

\* The caller goes on to its next step with the same client
Proceed ==
    /\ pc = "done"
    /\ pc' = "idle"
    /\ op' = NoOp
    /\ req' = NoRequest
    /\ attempts' = 0
    /\ sent' = 0
    /\ hist' = <<>>
    /\ net' = NoNet
    /\ tr' = NoResult
    /\ result' = NoResult
    /\ qb' = NewQuery
    /\ UNCHANGED <<calls, client, scope, wire>>

\* client.close()
CallClose ==
    /\ client # NoClient
    /\ Lifecycle([NoOp EXCEPT !.name = "close"], Return(Null), Close(client), scope)

\* The block ends normally: __exit__(None, None, None)
LeaveScope ==
    /\ scope = "inside"
    /\ Lifecycle([NoOp EXCEPT !.name = "__exit__"], Return(Null), Exit(client), "left")

\* A call inside the block raised: __exit__ runs with the exception and
\* returns None, so the exception goes on to the caller of the block
LeaveScopeRaising ==
    /\ pc = "done"
    /\ scope = "inside"
    /\ result.kind = "raise"
    /\ op' = [op EXCEPT !.name = "__exit__"]
    /\ client' = Exit(client)
    /\ scope' = "left"
    /\ UNCHANGED <<pc, req, attempts, sent, hist, net, tr, result, qb, calls, wire>>

NextClient ==
    \/ New
    \/ CallFindAll
    \/ CallGetByGroup
    \/ CallFindById
    \/ CallCreate
    \/ CallUpdate
    \/ CallDelete
    \/ CallExecute
    \/ CallFirst
    \/ CallCount
    \/ CallSplitTransaction
    \/ CallTestConnection
    \/ Answer
    \/ Proceed
    \/ CallClose
    \/ LeaveScope
    \/ LeaveScopeRaising

ClientSpec == InitWith(NoClient) /\ [][NextClient]_vars

---------------------------------------------------------------------------
(* The terminal calls on the builder the caller has in hand, between and   *)
(* after the chaining calls: `calls` lists every call made on the builder, *)
(* the terminal ones included.                                             *)

\* A terminal call `name` on the builder in hand that sends the request r;
\* made lists the calls on the builder that it amounts to
TerminalCall(name, r, made) ==
    /\ Len(calls) + Len(made) <= MaxCalls
    /\ qb' = Terminal(qb, name)
    /\ Start([name |-> name, repo |-> "category", id |-> Null, data |-> Null], r)
    /\ calls' = calls \o made

\* qb.build_params(): a new mapping, nothing is sent
OnBuildParams ==
    /\ pc = "idle"
    /\ Len(calls) < MaxCalls
    /\ pc' = "done"
    /\ op' = [NoOp EXCEPT !.name = "build_params"]
    /\ tr' = Return(BuildParams(qb))
    /\ result' = Return(BuildParams(qb))
    /\ qb' = Terminal(qb, "build_params")
    /\ calls' = Append(calls, [name |-> "build_params"])
    /\ UNCHANGED <<req, attempts, sent, hist, net, client, scope, wire>>

\* qb.execute()
OnExecute ==
    TerminalCall("execute", Request("GET", Path("category"), BuildParams(qb), Null),
                 <<[name |-> "execute"]>>)

\* qb.first(): self.limit(1).execute()
OnFirst ==
    TerminalCall("first",
                 Request("GET", Path("category"), BuildParams(Terminal(qb, "first")), Null),
                 <<[name |-> "limit", n |-> 1], [name |-> "execute"]>>)

\* qb.count(): `count` is added to the mapping build_params returned
OnCount ==
    TerminalCall("count",
                 Request("GET", Path("category") \o "/count",
                         Obj(Update(BuildParams(qb).v, "count" :> Bool(TRUE))), Null),
                 <<[name |-> "count"]>>)

\* The caller is done with the result and keeps the builder
KeepBuilder ==
    /\ pc = "done"
    /\ pc' = "idle"
    /\ op' = NoOp
    /\ req' = NoRequest
    /\ attempts' = 0
    /\ sent' = 0
    /\ hist' = <<>>
    /\ net' = NoNet
    /\ tr' = NoResult
    /\ result' = NoResult
    /\ wire' = <<>>
    /\ UNCHANGED <<qb, calls, client, scope>>

NextQuery ==
    \/ NewBuilder
    \/ ChainFilter
    \/ ChainOrderBy
    \/ ChainLimit
    \/ ChainOffset
    \/ ChainExpand
    \/ OnBuildParams
    \/ OnExecute
    \/ OnFirst
    \/ OnCount
    \/ Answer
    \/ KeepBuilder

QuerySpec == Init /\ [][NextQuery]_vars

---------------------------------------------------------------------------
(* Vocabulary of the properties                                            *)

Done(name) == pc = "done" /\ op.name = name

\* The round trip ended with a response handed to _handle_response_errors
Completed == net.verdict = "done" /\ net.outcome.kind = "response"
Status == net.outcome.response.status
Body == net.outcome.response.body

\* The round trip failed below the HTTP level, or by running out of retries
TransportFailure == net.verdict = "exhausted" \/ net.outcome.kind = "error"
\* The round trip ended with an error status
StatusFailure == Completed /\ Status >= 400
Success2xx == Completed /\ Status \in 200..299

\* The wire mapping names a key that the entity kind does not have, or is no
\* mapping at all
Unconstructible(cls, v) == ~IsDict(v) \/ ~(DOMAIN v.v \subseteq Fields(cls))

---------------------------------------------------------------------------
(* C1: find_by_id never raises; it returns None when the round trip fails  *)
(* at the network level, when the status is >= 400 and when the 2xx body   *)
(* cannot be made into the entity.                                         *)
C1_FindByIdAbsence ==
    Done("find_by_id") =>
        /\ result.kind = "return"
        /\ (TransportFailure \/ StatusFailure) => result.value = Null
        /\ (Success2xx /\ tr.kind = "return"
                /\ Unconstructible(ModelClass(op.repo), tr.value))
              => result.value = Null

C1_Witness ==
    /\ Done("find_by_id")
    /\ Completed /\ Status = 404
    /\ result = Return(Null)

---------------------------------------------------------------------------
---------------------------------------------------------------------------
\* Lists of non-falsy item mappings, and the shapes that may carry one
AllItemMappings(l) == \A i \in 1..Len(l) : IsDict(l[i]) /\ Truthy(l[i])

IsEnvelopeOf(v, l) ==
    \/ v = Arr(l)
    \/ v = Obj("items" :> Arr(l))
    \/ v = Obj("results" :> Arr(l))

EntitiesOf(cls, l) == CreateModels(cls, Arr(l))

(* C3: find_all gives the same entities for {"items": L}, {"results": L}   *)
(* and the bare list L, for every list L of non-falsy item mappings.       *)
C3_EnvelopesAgree ==
    (Done("find_all") /\ Completed /\ Status < 400 /\ tr.kind = "return") =>
        \A l \in ItemLists :
            (AllItemMappings(l) /\ IsEnvelopeOf(tr.value, l))
                => result = EntitiesOf(ModelClass(op.repo), l)

---------------------------------------------------------------------------
\* The list a find_all response carries, bare or under "items"
ListOf(v) == IF IsList(v) THEN v.v ELSE v.v["items"].v

IsResponseList(v) ==
    \/ IsList(v)
    \/ (IsDict(v) /\ "items" \in DOMAIN v.v /\ IsList(v.v["items"]))

NonFalsy(l) == SelectSeq(l, LAMBDA x : x \notin {Null, EmptyDict, Num(0), Str(""),
                                                  EmptyList, Bool(FALSE)})

(* C4: find_all drops the falsy items of the response list and parses the  *)
(* others in their order; a dropped item never makes the call fail.        *)
C4_FalsyItemsDropped ==
    (Done("find_all") /\ Completed /\ Status < 400 /\ tr.kind = "return"
        /\ IsResponseList(tr.value)) =>
        LET cls == ModelClass(op.repo)
            rest == NonFalsy(ListOf(tr.value))
        IN  IF \A i \in 1..Len(rest) : ~Unconstructible(cls, rest[i])
            THEN /\ result.kind = "return"
                 /\ Len(result.value.v) = Len(rest)
                 /\ \A i \in 1..Len(rest) :
                        result.value.v[i] = Entity(cls, rest[i].v)
            ELSE result.kind = "raise"

C4_Witness ==
    /\ Done("find_all")
    /\ Completed /\ Status = 200
    /\ tr = Return(Arr(<<Item1, Null, Item2>>))
    /\ result.kind = "return"
    /\ Len(result.value.v) = 2

---------------------------------------------------------------------------
\* The serialized forms of the entities the caller creates, written out
SerializedForm(e) ==
    CASE e = Entity("Category", ("name" :> Str("Sales")) @@ ("group" :> GroupIncome)) ->
            Obj(("name" :> Str("Sales")) @@ ("group" :> Str("income")))
      [] e = Entity("Category", EmptyMap) -> EmptyDict
      [] OTHER ->
            Obj(("value" :> Num(100)) @@ ("group" :> Str("income"))
                @@ ("date" :> Str("15.01.2024 09:30"))
                @@ ("spreadMonthes" :> EmptyList))

HasItems(v) ==
    IsDict(v) /\ "items" \in DOMAIN v.v /\ IsList(v.v["items"])
        /\ Len(v.v["items"].v) > 0

C5_WitnessZeroItems ==
    /\ Done("create")
    /\ tr = Return(Obj("items" :> EmptyList))
    /\ result.kind = "raise"

---------------------------------------------------------------------------
(* C6: a transport-level or status-level failure inside an operation other *)
(* than find_by_id and delete reaches the caller as a raised typed failure.*)
C6_FailuresPropagateTyped ==
    (pc = "done" /\ op.name \notin {"find_by_id", "delete"}
        /\ (TransportFailure \/ StatusFailure))
      => (result.kind = "raise" /\ IsTyped(result.exc))

\* The operations that let a failure of the HttpClient call through
Propagating ==
    {"find_all", "get_by_group", "create", "update", "execute", "first",
     "count", "split_transaction"}

\* The bodies on which _handle_response_errors fails before it can raise
MapperBreaks ==
    /\ StatusFailure
    /\ \/ (Body.isjson /\ ~IsDict(Body.json))
       \/ (~Body.isjson /\ Status = 422)

(* C6, as the code has it: the connectivity check reports a failure in its *)
(* summary instead of raising; in every other such operation the failure   *)
(* is raised to the caller, and it is a typed failure except where the     *)
(* error mapper itself breaks on the body (JSON that is no object; a       *)
(* non-JSON body with status 422).                                         *)
C6_FailuresPropagate ==
    (pc = "done" /\ (TransportFailure \/ StatusFailure)) =>
        /\ op.name \in Propagating =>
             /\ result.kind = "raise"
             /\ IsTyped(result.exc) <=> ~MapperBreaks
        /\ op.name = "test_connection" =>
             /\ result.kind = "return"
             /\ result.value.v["success"] = Bool(FALSE)

C6_Witness ==
    /\ Done("find_all")
    /\ TransportFailure
    /\ net.outcome.kind = "error" /\ net.outcome.cls = "ReadTimeoutError"
    /\ result.kind = "raise"
    /\ result.exc.cls \in {"TimeoutException", "ConnectionException"}

---------------------------------------------------------------------------
---------------------------------------------------------------------------
(* C8: a completed response with status 403 raises ForbiddenException.     *)
C8_ForbiddenKind ==
    (pc = "done" /\ Completed /\ Status = 403 /\ Body.isjson /\ IsDict(Body.json))
      => (tr.kind = "raise" /\ tr.exc.cls = "ForbiddenException")

---------------------------------------------------------------------------
(* C9: every completed response with status >= 400 makes the transport     *)
(* raise a typed failure, whatever the shape of its body.                  *)
C9_ErrorStatusRaisesTyped ==
    (pc = "done" /\ StatusFailure) => (tr.kind = "raise" /\ IsTyped(tr.exc))

---------------------------------------------------------------------------
\* A FinTabloException raised for the status of a completed response
RaisedForStatus == pc = "done" /\ StatusFailure /\ tr.kind = "raise" /\ IsTyped(tr.exc)

(* C10: a failure raised for a status >= 400 carries the status code, the  *)
(* raw response and a message: the body's `message` if the body is a JSON  *)
(* object with one, else the raw text if non-empty, else "HTTP <status>".  *)
C10_MessageFallsBackToText ==
    RaisedForStatus =>
        /\ tr.exc.status_code = Num(Status)
        /\ tr.exc.response = net.outcome.response
        /\ tr.exc.message =
             (IF Body.isjson /\ IsDict(Body.json) /\ "message" \in DOMAIN Body.json.v
              THEN Body.json.v["message"]
              ELSE IF Body.text # "" THEN Str(Body.text)
              ELSE Str("HTTP " \o ToString(Status)))

(* C10, as the code has it: the failure carries the status code and the    *)
(* raw response; its message is the body's `message`, or "Unknown error"   *)
(* for a JSON object without one; the raw text and "HTTP <status>" are     *)
(* used only when the body is not JSON.                                    *)
C10_MessageChain ==
    RaisedForStatus =>
        /\ tr.exc.status_code = Num(Status)
        /\ tr.exc.response = net.outcome.response
        /\ tr.exc.message =
             (IF Body.isjson
              THEN (IF "message" \in DOMAIN Body.json.v
                    THEN Body.json.v["message"] ELSE Str("Unknown error"))
              ELSE IF Body.text # "" THEN Str(Body.text)
              ELSE Str("HTTP " \o ToString(Status)))

C10_Witness ==
    /\ RaisedForStatus
    /\ Body = Json(Obj("detail" :> Str("denied")))
    /\ tr.exc.message = Str("Unknown error")
    /\ tr.exc.status_code = Num(404)

---------------------------------------------------------------------------
(* C11: a 422 response with a JSON-object body raises a validation failure *)
(* whose message is the body's `message` and whose error list is the       *)
(* body's `errors` list when there is one, and empty when the body has no  *)
(* `errors` field.                                                         *)
C11_ValidationCarriesErrors ==
    (pc = "done" /\ Completed /\ Status = 422 /\ Body.isjson /\ IsDict(Body.json)) =>
        /\ tr.kind = "raise"
        /\ tr.exc.cls = "ValidationException"
        /\ "message" \in DOMAIN Body.json.v => tr.exc.message = Body.json.v["message"]
        /\ ("errors" \in DOMAIN Body.json.v /\ IsList(Body.json.v["errors"]))
              => tr.exc.errors = Body.json.v["errors"]
        /\ "errors" \notin DOMAIN Body.json.v => tr.exc.errors = EmptyList

C11_Witness ==
    /\ pc = "done" /\ Completed /\ Status = 422
    /\ Body.json = Obj(("message" :> Str("bad value"))
                       @@ ("errors" :> Arr(<<Str("field X invalid")>>)))
    /\ tr.kind = "raise"
    /\ tr.exc.message = Str("bad value")
    /\ tr.exc.errors = Arr(<<Str("field X invalid")>>)

---------------------------------------------------------------------------
\* The statuses the retry policy is described for, and the methods it leaves
\* alone
Transient == {429} \cup (500..599)
NonIdempotent == {"POST", "PUT", "PATCH", "DELETE"}
AllMet(statuses) == \A i \in 1..Len(hist) : hist[i] \in statuses

(* C12: a GET answered 503, 503 and then 200 succeeds: the 503 answers are *)
(* not the end of the call while fewer than three attempts were made, the  *)
(* caller of HttpClient.get receives the parsed body of the 200 response,  *)
(* and three attempts were made, each one sent.                            *)
C12_GetSucceedsOnThirdAttempt ==
    (pc = "done" /\ req.method = "GET" /\ net.outcome.kind = "response") =>
        /\ Status = 503 => attempts > 2
        /\ (hist = <<503, 503>> /\ Status = 200) =>
             /\ net.verdict = "done"
             /\ attempts = 3
             /\ sent = 3
             /\ tr = Return(IF Body.text = "" THEN EmptyDict ELSE Body.json)

C12_Witness ==
    /\ Done("find_all")
    /\ hist = <<503, 503>>
    /\ Completed /\ Status = 200
    /\ attempts = 3
    /\ tr = Return(Arr(<<Item1, Item2>>))
    /\ result.kind = "return"

---------------------------------------------------------------------------
(* C13: a POST, PUT, PATCH or DELETE request is never sent more than once: *)
(* no response to it is followed by another attempt, and a 429 or 5xx      *)
(* response ends the call at once with the failure kind of its status.     *)
C13_NonIdempotentSentOnce ==
    (req.method \in NonIdempotent) =>
        /\ sent <= 1
        /\ AllMet({0})
        /\ (pc = "done" /\ net.outcome.kind = "response") =>
             /\ net.verdict = "done"
             /\ sent = 1
             /\ (Status \in Transient /\ ~MapperBreaks) =>
                  /\ tr.kind = "raise"
                  /\ tr.exc.cls = (IF Status = 429 THEN "RateLimitException"
                                   ELSE "ServerException")
                  /\ tr.exc.status_code = Num(Status)

C13_Witness ==
    /\ Done("create")
    /\ Completed /\ Status = 503
    /\ attempts = 1 /\ sent = 1
    /\ tr.kind = "raise" /\ tr.exc.cls = "ServerException"
    /\ result = tr

---------------------------------------------------------------------------
(* C14: a GET whose every attempt is answered with a transient status (429 *)
(* or 5xx) is sent at most 3 times in total and ends with a failure.       *)
C14_AtMostThreeAttempts ==
    (pc = "done" /\ req.method \in AllowedMethods /\ AllMet(Transient)
        /\ net.outcome.kind = "response" /\ Status \in Transient)
      => (sent <= 3 /\ tr.kind = "raise")

(* C14, as the code has it: max_retries = 3 allows three retries after the *)
(* first attempt, so such a GET is sent at most 4 times; it ends with a    *)
(* failure, and when the fourth answer is again a status of the retry list *)
(* the failure is the generic one, without a status code.                  *)
C14_AtMostFourAttempts ==
    /\ attempts <= MaxRetries + 1
    /\ sent <= attempts
    /\ (pc = "done" /\ req.method \in AllowedMethods /\ AllMet(Transient)
          /\ net.outcome.kind = "response" /\ Status \in Transient) =>
        /\ sent = attempts
        /\ tr.kind = "raise"
        /\ Status \in StatusForcelist =>
             /\ attempts = MaxRetries + 1
             /\ net.verdict = "exhausted"
             /\ tr.exc.cls = "FinTabloException"
             /\ tr.exc.status_code = Null

C14_Witness ==
    /\ Done("find_all")
    /\ hist = <<503, 503, 503>>
    /\ net.outcome.kind = "response" /\ Status = 503
    /\ sent = 4
    /\ result.kind = "raise" /\ result.exc.cls = "FinTabloException"

---------------------------------------------------------------------------
\* What the log of chaining calls says the parameters are
CallsNamed(name) == SelectSeq(calls, LAMBDA c : c.name = name)
LastOf(seq) == seq[Len(seq)]
FilterKeys == UNION {DOMAIN calls[i].kwargs : i \in {j \in 1..Len(calls) : calls[j].name = "filter"}}
LastWrite(key) ==
    LastOf(SelectSeq(calls, LAMBDA c : c.name = "filter" /\ key \in DOMAIN c.kwargs)).kwargs[key]
Clause(c) == c.field \o ":" \o (IF c.ascending THEN "asc" ELSE "desc")

RECURSIVE Commas(_)
Commas(strs) ==
    IF strs = <<>> THEN ""
    ELSE IF Len(strs) = 1 THEN strs[1]
    ELSE Commas(SubSeq(strs, 1, Len(strs) - 1)) \o "," \o strs[Len(strs)]

RECURSIVE Flatten(_)
Flatten(seqs) == IF seqs = <<>> THEN <<>> ELSE Head(seqs) \o Flatten(Tail(seqs))

SortClauses == [i \in 1..Len(CallsNamed("order_by")) |-> Clause(CallsNamed("order_by")[i])]
ExpandNames == Flatten([i \in 1..Len(CallsNamed("expand")) |-> CallsNamed("expand")[i].fields])

(* C15: after any sequence of filter/order_by/limit/offset/expand calls,   *)
(* build_params is the flat mapping of exactly: every filter key with its  *)
(* last written value; `order`, the sort clauses in call order joined by   *)
(* commas, iff order_by was called; `limit` and `offset` iff they were     *)
(* set; `expand`, the names in call order joined by commas, iff there are  *)
(* any.                                                                    *)
C15_BuildParamsFlat ==
    LET params == BuildParams(qb).v IN
    /\ DOMAIN params =
            FilterKeys
            \cup (IF CallsNamed("order_by") # <<>> THEN {"order"} ELSE {})
            \cup (IF CallsNamed("limit") # <<>> THEN {"limit"} ELSE {})
            \cup (IF CallsNamed("offset") # <<>> THEN {"offset"} ELSE {})
            \cup (IF ExpandNames # <<>> THEN {"expand"} ELSE {})
    /\ \A key \in FilterKeys : params[key] = LastWrite(key)
    /\ "order" \in DOMAIN params => params["order"] = Str(Commas(SortClauses))
    /\ "limit" \in DOMAIN params => params["limit"] = Num(LastOf(CallsNamed("limit")).n)
    /\ "offset" \in DOMAIN params => params["offset"] = Num(LastOf(CallsNamed("offset")).n)
    /\ "expand" \in DOMAIN params => params["expand"] = Str(Commas(ExpandNames))

C15_Witness ==
    /\ calls = <<[name |-> "filter", kwargs |-> "group" :> Str("income")],
                 [name |-> "order_by", field |-> "date", ascending |-> FALSE],
                 [name |-> "limit", n |-> 10]>>
    /\ BuildParams(qb) = Obj(("group" :> Str("income")) @@ ("order" :> Str("date:desc"))
                             @@ ("limit" :> Num(10)))

---------------------------------------------------------------------------
\* The items a query response carries, whatever its envelope
CarriedItems(v) ==
    IF IsDict(v)
    THEN (IF "items" \in DOMAIN v.v THEN v.v["items"]
          ELSE IF "results" \in DOMAIN v.v THEN v.v["results"]
          ELSE Arr(<<v>>))
    ELSE IF IsList(v) THEN v
    ELSE Arr(<<v>>)

\* The entity was made from the item: every key but the converted date
MadeFrom(entity, item) ==
    /\ entity.t = "entity"
    /\ \A key \in DOMAIN item.v \ {"date"} : entity.attrs[key] = item.v[key]

(* C16: first() sends the query with limit = 1 whatever limit was set      *)
(* before, and returns the entity of the first item of the result, or None *)
(* when the result is empty; execute() returns a list, possibly empty,     *)
(* never None.                                                             *)
C16_FirstForcesLimitOne ==
    /\ Done("first") =>
        /\ qb.limit = Num(1)
        /\ req.params.v["limit"] = Num(1)
        /\ req.kwargs.params = req.params
        /\ (result.kind = "return" /\ IsList(CarriedItems(tr.value))) =>
             LET rest == NonFalsy(CarriedItems(tr.value).v)
             IN IF rest = <<>> THEN result.value = Null
                ELSE MadeFrom(result.value, rest[1])
    /\ Done("execute") =>
        /\ result # Return(Null)
        /\ result.kind = "return" => IsList(result.value)

C16_Witness ==
    /\ Done("first")
    /\ qb.ordering = <<"date:desc">>
    /\ req.params.v["limit"] = Num(1)
    /\ tr = Return(Obj("results" :> Arr(<<Item1, Item2>>)))
    /\ result = Return(Entity(ModelClass(op.repo), "id" :> Num(1)))

C16_WitnessEmpty ==
    /\ Done("first")
    /\ tr = Return(EmptyList)
    /\ result = Return(Null)

---------------------------------------------------------------------------
\* The wire strings of the date/time values the caller uses, written out
WrittenOut(dt) ==
    CASE dt = Minute -> "15.01.2024 09:30"
      [] dt = Second -> "15.01.2024 09:30"
      [] dt = YearEnd -> "31.12.1999 23:59"

Serialized == pc = "done" /\ op.name = "to_api_dict"

---------------------------------------------------------------------------
\* A wire value with no null, date/time object or enum at any depth
RECURSIVE Converted(_)
Converted(v) ==
    CASE v.t \in {"null", "datetime", "enum", "entity"} -> FALSE
      [] v.t = "arr" -> \A i \in 1..Len(v.v) : Converted(v.v[i])
      [] v.t = "obj" -> \A k \in DOMAIN v.v : Converted(v.v[k])
      [] OTHER -> TRUE

(* C18: serialization applies its rules at every nesting depth: no null    *)
(* appears anywhere in the output, and a date/time or enum nested in a     *)
(* sequence or mapping field is converted as a top-level one is.           *)
C18_NestedValuesConverted ==
    Serialized => \A f \in DOMAIN result.value.v : Converted(result.value.v[f])

---------------------------------------------------------------------------
\* The days the calendar has, for the years the wire dates are drawn from
OnCalendar(y, mo, d) ==
    d <= (CASE mo \in {4, 6, 9, 11} -> 30
            [] mo = 2 -> (IF y \in {2000, 2024} THEN 29 ELSE 28)
            [] OTHER -> 31)

\* The wire text has the shape dd.mm.YYYY HH:mm
MinuteShaped(text) ==
    /\ Len(text) = 16
    /\ Char(text, 3) = "." /\ Char(text, 6) = "." /\ Char(text, 11) = " "
    /\ Char(text, 14) = ":"
    /\ \A i \in (1..16) \ {3, 6, 11, 14} : IsDigit(Char(text, i))

---------------------------------------------------------------------------
\* Python equality of a value and what came back for it: GroupEnum is a str
\* subclass, so its member equals its token; a date/time comes back without
\* its seconds.
CameBack(was, is) ==
    CASE was.t = "datetime" -> is = [was EXCEPT !.sec = 0]
      [] was.t = "enum" -> is = Str(was.v)
      [] OTHER -> is = was

\* The fields hold what they are declared to hold: no dataclass inside a list
DeclaredKinds(entity) ==
    \A f \in DOMAIN entity.attrs :
        entity.attrs[f].t = "arr" =>
            \A i \in 1..Len(entity.attrs[f].v) : entity.attrs[f].v[i].t # "entity"

ParsedBack == pc = "done" /\ op.name = "parse_back"

(* C20: for every entity E whose id is absent, _create_model applied to    *)
(* E.to_api_dict() restores every field of E to an equal value, except     *)
(* that a date/time field comes back truncated to the minute.              *)
C20_RoundTripRestores ==
    (ParsedBack /\ op.data.attrs["id"] = Null /\ DeclaredKinds(op.data)) =>
        /\ result.kind = "return"
        /\ \A f \in Fields(op.data.cls) :
              CameBack(op.data.attrs[f], result.value.attrs[f])

(* C20, as the code has it: every field is restored to an equal value,     *)
(* except that a date/time field comes back truncated to the minute and a  *)
(* field declared with an empty-list default (Transaction.spreadMonthes,   *)
(* Deal.jobs, goods, stages) that was set to None comes back as [].        *)
C20_RoundTripUpToDefaults ==
    (ParsedBack /\ op.data.attrs["id"] = Null /\ DeclaredKinds(op.data)) =>
        /\ result.kind = "return"
        /\ result.value.cls = op.data.cls
        /\ \A f \in Fields(op.data.cls) :
              IF op.data.attrs[f] = Null
              THEN result.value.attrs[f] =
                      (IF f \in {"spreadMonthes", "jobs", "goods", "stages"}
                       THEN EmptyList ELSE Null)
              ELSE CameBack(op.data.attrs[f], result.value.attrs[f])

C20_Witness ==
    /\ ParsedBack
    /\ op.data.cls = "Transaction"
    /\ op.data.attrs["id"] = Null
    /\ op.data.attrs["date"] = Second
    /\ result.value.attrs["date"] = Minute
    /\ op.data.attrs["group"] = GroupIncome
    /\ result.value.attrs["group"] = Str("income")
    /\ op.data.attrs["spreadMonthes"] = Null
    /\ result.value.attrs["spreadMonthes"] = EmptyList

---------------------------------------------------------------------------
\* _create_model was given a wire mapping with a key its entity kind lacks
ParsedUnknownKey ==
    /\ Done("_create_model")
    /\ IsDict(op.data)
    /\ ~(DOMAIN op.data.v \subseteq Fields("Transaction"))

(* C21: when the entity cannot be constructed from the wire mapping, the   *)
(* failure that reaches the caller is the model-parsing failure, the one   *)
(* kind of failure that carries the entity kind, the wire keys received    *)
(* and the fields the entity kind expects.                                 *)
C21_ParsingFailureCarriesContext ==
    ParsedUnknownKey =>
        /\ result.kind = "raise"
        /\ result.exc.cls = "ModelParsingException"

---------------------------------------------------------------------------
\* The wire texts that name a date in one of the three formats, and the
\* date/time each one names
NamedDate(text) ==
    CASE text = "15.01.2024" -> DateTime(2024, 1, 15, 0, 0, 0)
      [] text = "15.01.2024 09:30" -> DateTime(2024, 1, 15, 9, 30, 0)
      [] OTHER -> Null

ParsedDated ==
    /\ Done("_create_model")
    /\ IsDict(op.data)
    /\ DOMAIN op.data.v \subseteq Fields("Transaction")
    /\ "date" \in DOMAIN op.data.v

(* C27: a `date` string of exactly 10 characters containing `-` is parsed  *)
(* as YYYY-MM-DD; otherwise one containing `.` is parsed as dd.mm.YYYY     *)
(* when it has 10 characters and as dd.mm.YYYY HH:mm when it has 16; a     *)
(* string of neither shape, or one whose parse fails, is kept as it is;    *)
(* in every case the entity is constructed.                                *)
C27_DateDiscrimination ==
    ParsedDated =>
        LET given == op.data.v["date"]
            text == given.v
            date == result.value.attrs["date"]
            iso == Len(text) = 10 /\ Contains(text, "-")
            dotted == Contains(text, ".") /\ Len(text) >= 10
        IN  /\ result.kind = "return"
            /\ given.t # "str" => date = given
            /\ given.t = "str" =>
                /\ date.t = "datetime" \/ date = given
                /\ (~iso /\ ~dotted) => date = given
                /\ iso => \A y \in Years, mo \in 1..12, d \in Days :
                        text = IsoText(y, mo, d) =>
                            date = (IF OnCalendar(y, mo, d)
                                    THEN DateTime(y, mo, d, 0, 0, 0) ELSE given)
                /\ (iso /\ Contains(text, ".")) => date = given
                /\ (~iso /\ dotted /\ Len(text) \in {10, 16}) =>
                        date = (IF NamedDate(text) # Null THEN NamedDate(text)
                                ELSE given)

C27_Witness ==
    /\ ParsedDated
    /\ op.data.v["date"] = Str("15.01.2024 09:30")
    /\ result.value.attrs["date"] = DateTime(2024, 1, 15, 9, 30, 0)

C27_WitnessKeptRaw ==
    /\ ParsedDated
    /\ op.data.v["date"] = Str("15.01.2024 25:30")
    /\ result.value.attrs["date"] = Str("15.01.2024 25:30")

---------------------------------------------------------------------------
(* C29: the failure reported for a transient status (429 or 5xx) does not  *)
(* depend on the method: whichever request the status ends, a GET that ran *)
(* out of retries included, the caller of the transport receives the rate- *)
(* limited failure (429) or the server failure (5xx) with that status code.*)
C29_TransientKindForEveryMethod ==
    (pc = "done" /\ net.outcome.kind = "response" /\ Status \in Transient
        /\ ~MapperBreaks) =>
        /\ tr.kind = "raise"
        /\ tr.exc.cls = (IF Status = 429 THEN "RateLimitException"
                         ELSE "ServerException")
        /\ tr.exc.status_code = Num(Status)

---------------------------------------------------------------------------
(* C24: test_connection hands exactly one request to the transport, a GET  *)
(* of the categories endpoint without a body, and never raises: it returns *)
(* success=true, a message and the parsed payload when that GET succeeds,  *)
(* and success=false with a message containing the failure's text for      *)
(* every failure of the GET.                                               *)
C24_TestConnectionSummary ==
    (op.name = "test_connection") =>
        /\ wire = <<[method |-> "GET", url |-> "https://api.example.test/v1/category"]>>
        /\ req.kwargs = [params |-> Absent, json |-> Absent, data |-> Absent]
        /\ pc = "done" =>
            /\ result.kind = "return"
            /\ tr.kind = "return" =>
                /\ net.outcome.response.status < 400
                /\ result.value =
                     Obj(("success" :> Bool(TRUE))
                         @@ ("message" :> Str("Connection successful"))
                         @@ ("data" :> (IF Body.text = "" THEN EmptyDict ELSE Body.json)))
            /\ tr.kind = "raise" =>
                /\ result.value.v["success"] = Bool(FALSE)
                /\ result.value.v["message"] =
                     Str("Connection failed: " \o
                         (IF tr.exc.status_code = Null THEN ""
                          ELSE "[" \o ToString(tr.exc.status_code.v) \o "] ")
                         \o tr.exc.message.v)
                /\ "data" \notin DOMAIN result.value.v

C24_Witness ==
    /\ Done("test_connection")
    /\ Completed /\ Status = 404
    /\ result.kind = "return"
    /\ result.value.v["success"] = Bool(FALSE)
    /\ result.value.v["message"] = Str("Connection failed: [404] not here")

C24_WitnessSuccess ==
    /\ Done("test_connection")
    /\ Completed /\ Status = 200
    /\ result.value = Obj(("success" :> Bool(TRUE))
                          @@ ("message" :> Str("Connection successful"))
                          @@ ("data" :> Obj("items" :> Arr(<<ItemSales>>))))

---------------------------------------------------------------------------
\* categories.get_income_categories() of the client constructed with base
\* URL https://api.example.test and API key "k"
IncomeCategories ==
    /\ client.base_url = "https://api.example.test"
    /\ client.api_key = Str("k")
    /\ op.name = "get_by_group" /\ op.repo = "category" /\ op.data = Str("income")

(* C25: with base URL https://api.example.test and API key "k",            *)
(* get_income_categories() issues exactly one request: GET                 *)
(* https://api.example.test/v1/category with the single query parameter    *)
(* group=income and the header Authorization: Bearer k; the response       *)
(* {"items":[{"id":1,"name":"Sales","group":"income"}]} is returned as     *)
(* exactly one Category with id=1, name="Sales", group="income".           *)
C25_IncomeCategoriesEndToEnd ==
    IncomeCategories =>
        /\ wire = <<[method |-> "GET", url |-> "https://api.example.test/v1/category"]>>
        /\ req.kwargs = [params |-> Obj("group" :> Str("income")),
                         json |-> Absent, data |-> Absent]
        /\ req.headers["Authorization"] = "Bearer k"
        /\ (pc = "done" /\ Completed /\ Status = 200
              /\ Body.json = Obj("items" :> Arr(<<ItemSales>>))) =>
            /\ hist = <<>> => (attempts = 1 /\ sent = 1)
            /\ result =
                 Return(Arr(<<[t |-> "entity", cls |-> "Category",
                               attrs |-> [id |-> Num(1), name |-> Str("Sales"),
                                          parentId |-> Null, group |-> Str("income"),
                                          type |-> Null, pnlType |-> Null,
                                          description |-> Null, isBuiltIn |-> Null]]>>))

C25_Witness ==
    /\ IncomeCategories
    /\ pc = "done" /\ Completed /\ Status = 200 /\ hist = <<>>
    /\ Body.json = Obj("items" :> Arr(<<ItemSales>>))
    /\ req.url = "https://api.example.test/v1/category"
    /\ Len(result.value.v) = 1
    /\ result.value.v[1].attrs["name"] = Str("Sales")

---------------------------------------------------------------------------
\* The session of the caller's client holds connection pools
Pooled == client # NoClient /\ client.http_client.pooled

\* A step in which close() runs: called by the caller, or by __exit__
Closing ==
    \/ (pc = "idle" /\ pc' = "done" /\ op'.name \in {"close", "__exit__"})
    \/ (scope = "inside" /\ scope' # "inside")

(* C22: close() releases the connection pool and is idempotent: whatever   *)
(* requests went before and however often it was called already, it does   *)
(* not fail and leaves the pool released; leaving the with-block, normally *)
(* or through an exception, always performs the release, so a client used  *)
(* through the block holds no pool once the block is left.                 *)
C22_CloseReleasesPool ==
    /\ [](scope = "left" => ~Pooled)
    /\ [][/\ Closing =>
                /\ ~Pooled'
                /\ (result'.kind = "raise" => result' = result)
          /\ (scope = "inside" /\ scope' # "inside") => scope' = "left"
         ]_vars

C22_Witness ==
    /\ scope = "left"
    /\ op.name = "__exit__"
    /\ result.kind = "raise"
    /\ Len(wire) = 2
    /\ ~Pooled

C22_WitnessClosedTwice ==
    /\ scope = "left"
    /\ Done("close")
    /\ Len(wire) = 1
    /\ result = Return(Null)
    /\ ~Pooled

---------------------------------------------------------------------------
(* C23: constructing a client with a missing or empty API key (None or "") *)
(* fails with an authentication failure before any transport, pool or      *)
(* repository is created and without a request; with a non-empty key the   *)
(* construction succeeds, and issues no request either.                    *)
C23_KeyCheckedAtConstruction ==
    Done("Fintablo") =>
        /\ wire = <<>> /\ req = NoRequest /\ attempts = 0 /\ sent = 0
        /\ IF op.data.v["api_key"] \in {Null, Str("")}
           THEN /\ result.kind = "raise"
                /\ result.exc.cls = "AuthenticationException"
                /\ client = NoClient
           ELSE /\ result.kind = "return"
                /\ client = result.value
                /\ client.api_key = op.data.v["api_key"]
                /\ client.http_client.headers["Authorization"] =
                      "Bearer " \o op.data.v["api_key"].v
                /\ ~Pooled

C23_Witness ==
    /\ Done("Fintablo")
    /\ op.data.v["api_key"] = Str("")
    /\ result.kind = "raise"
    /\ result.exc.message = Str("API key is required")
    /\ client = NoClient

C23_WitnessConstructed ==
    /\ Done("Fintablo")
    /\ op.data.v["api_key"] = Str("k")
    /\ op.data.v["base_url"] = Null
    /\ client.base_url = "https://api.fintablo.ru/v1"

---------------------------------------------------------------------------
(* C26: for every configured base URL, one with a path component included, *)
(* and every request path, the URL requested is the base URL with the path *)
(* concatenated onto it: no path segment of the base URL is dropped or     *)
(* replaced.                                                               *)
C26_UrlIsBasePlusPath ==
    (pc # "idle" /\ req # NoRequest) =>
        req.url = RStrip(client.base_url) \o "/" \o LStrip(req.endpoint)

---------------------------------------------------------------------------
\* The step is the start of a repository call (or of the connectivity check)
CallStarts == pc = "idle" /\ pc' = "sending"

(* C28: every repository call hands exactly one request to the transport,  *)
(* whatever calls went before: the request of the call is issued when the  *)
(* call starts, also when the same request was issued and answered before; *)
(* no other step issues one, so nothing is sent again after a failure; and *)
(* the result is made from the answer to the call's own request.           *)
C28_OneRequestPerCall ==
    [][/\ CallStarts =>
              wire' = Append(wire, [method |-> req'.method, url |-> req'.url])
       /\ ~CallStarts => wire' = wire
       /\ (pc = "sending" /\ pc' = "done") =>
              /\ tr' = HttpCall(net'.outcome, net'.verdict)
              /\ result' = Finish(op, tr')
              /\ op' = op /\ req' = req
      ]_vars

C28_Witness ==
    /\ Done("find_by_id")
    /\ op.id = Num(1)
    /\ wire = <<[method |-> "GET", url |-> "https://api.example.test/v1/category/1"],
                [method |-> "GET", url |-> "https://api.example.test/v1/category/1"]>>
    /\ result.kind = "return"

C28_WitnessAfterFailure ==
    /\ Done("create")
    /\ result.kind = "raise"
    /\ Len(wire) = 1
    /\ wire[1].method = "POST"

---------------------------------------------------------------------------
\* The builder the accumulating calls among cs make of a new one
RECURSIVE Replay(_)
Replay(cs) ==
    IF cs = <<>> THEN NewQuery
    ELSE CASE LastOf(cs).name = "filter" ->
                QFilter(Replay(SubSeq(cs, 1, Len(cs) - 1)), LastOf(cs).kwargs)
           [] LastOf(cs).name = "order_by" ->
                QOrderBy(Replay(SubSeq(cs, 1, Len(cs) - 1)), LastOf(cs).field,
                         LastOf(cs).ascending)
           [] LastOf(cs).name = "limit" ->
                QLimit(Replay(SubSeq(cs, 1, Len(cs) - 1)), LastOf(cs).n)
           [] LastOf(cs).name = "offset" ->
                QOffset(Replay(SubSeq(cs, 1, Len(cs) - 1)), LastOf(cs).n)
           [] LastOf(cs).name = "expand" ->
                QExpand(Replay(SubSeq(cs, 1, Len(cs) - 1)), LastOf(cs).fields)
           [] OTHER -> Replay(SubSeq(cs, 1, Len(cs) - 1))

\* The step is the terminal call `name` on the builder in hand
Calling(name) == pc = "idle" /\ pc' # "idle" /\ op'.name = name

(* C30: the builder is changed by the accumulating calls only.             *)
(* build_params, execute and count leave filters, ordering, limit, offset  *)
(* and expand as they are: the builder is what the accumulating calls made *)
(* on it built, so build_params returns the same mapping when called again *)
(* and the `count` parameter of count() is in no later request of          *)
(* execute. first() sets the limit to 1, and the limit stays 1 until a     *)
(* limit call or a new builder.                                            *)
C30_TerminalCallsFrame ==
    /\ [](/\ qb = Replay(calls)
          /\ "count" \notin DOMAIN BuildParams(qb).v
          /\ Done("build_params") => result = Return(BuildParams(Replay(calls))))
    /\ [][/\ (Calling("build_params") \/ Calling("execute") \/ Calling("count")) =>
                qb' = qb
          /\ pc # "idle" => qb' = qb
          /\ Calling("build_params") => result' = Return(BuildParams(qb))
          /\ Calling("execute") =>
                /\ req'.params = BuildParams(qb)
                /\ "count" \notin DOMAIN req'.params.v
          /\ Calling("count") =>
                req'.params = Obj(("count" :> Bool(TRUE)) @@ BuildParams(qb).v)
          /\ Calling("first") =>
                /\ qb' = [qb EXCEPT !.limit = Num(1)]
                /\ req'.params = BuildParams(qb')
                /\ req'.params.v["limit"] = Num(1)
          /\ (qb.limit = Num(1) /\ qb'.limit # Num(1)) =>
                \/ calls' = <<>>
                \/ calls' = Append(calls, [name |-> "limit", n |-> qb'.limit.v])
         ]_vars

C30_Witness ==
    /\ Done("execute")
    /\ calls = <<[name |-> "filter", kwargs |-> "group" :> Str("income")],
                 [name |-> "count"], [name |-> "execute"]>>
    /\ req.params = Obj("group" :> Str("income"))
    /\ wire = <<[method |-> "GET", url |-> "https://api.example.test/v1/category"]>>

C30_WitnessFirstPersists ==
    /\ Done("execute")
    /\ op.name = "execute"
    /\ calls = <<[name |-> "limit", n |-> 1], [name |-> "execute"], [name |-> "execute"]>>
    /\ req.params = Obj("limit" :> Num(1))

C30_WitnessFirstOverwrites ==
    /\ Done("first")
    /\ calls = <<[name |-> "limit", n |-> 10], [name |-> "limit", n |-> 1],
                 [name |-> "execute"]>>
    /\ qb.limit = Num(1)

C30_WitnessBuildParamsTwice ==
    /\ Done("build_params")
    /\ calls = <<[name |-> "offset", n |-> 5], [name |-> "build_params"],
                 [name |-> "build_params"]>>
    /\ result = Return(Obj("offset" :> Num(5)))

============================================================================
